---- MODULE Spec2Model ----
(***************************************************************************)
(* Model of the test-configuration sweep engine of                         *)
(* local-kafka-test/test_parameters.py and of the loop that drives it in   *)
(* local-kafka-test/run_test.py (KafkaPerformanceTester.run_test_suite).   *)
(*                                                                         *)
(* A Python dict is modelled by the set of keys it holds plus one field    *)
(* per key; a field whose key is absent holds a fixed filler value.  The   *)
(* parameter grid is an ordered sequence of dimensions (Python dicts keep  *)
(* insertion order); positions are 0-based as in the source, so the        *)
(* dimension at position pos is parameters[pos + 1].                       *)
(***************************************************************************)
EXTENDS Integers, Sequences, FiniteSets, TLC

VARIABLES
    test_specification,  \* event["test_specification"]: parameters + skip_remaining_throughput
    event_keys,          \* which of current_test / all_tests_completed / producer_result the event holds
    current_test,        \* event["current_test"]: [index, parameters]
    producer_result,     \* event["producer_result"], attached by the caller
    raised,              \* exception that left the last call ("none" when it returned)
    branch,              \* history: the path the last step took through increment_index_and_update_parameters
    evaluated,           \* history: the last step called evaluate_skip_condition
    minted,              \* history: the last step drew the series id it returned with random.randint
    fed,                 \* history: a step of this sweep was called with a producer_result in the event
    emitted,             \* history: the indexes emitted since the sweep's first step, in order
    test_count,          \* run_test_suite / generate_full_test_suite_results: test_count
    suite_pc,            \* where the caller stands: "idle" (between calls), "loop", "returned", "crashed", ...
    returned,            \* what the last direct call of evaluate_skip_condition returned
    rng,                 \* the state of Python's shared random generator
    imported,            \* test_parameters is in sys.modules
    all_results,         \* generate_full_test_suite_results: all_results of the running call
    previous_results     \* history: the seed and the results of the call before it

vars == <<test_specification, event_keys, current_test, producer_result, raised,
          branch, evaluated, minted, fed, emitted, test_count, suite_pc,
          returned, rng, imported, all_results, previous_results>>

\* The variables only the direct calls and the mock suite touch
extras == <<returned, rng, imported, all_results, previous_results>>

-----------------------------------------------------------------------------
(* Bounds of the model. *)

\* candidates per dimension in the enumerated grids
MaxCand == 3
\* grid cells (product of the dimension sizes) in the enumerated grids
MaxCells == 4
\* random.randint(0, 100000) is drawn from 0..MaxId
MaxId == 1
\* calls of generate_full_test_suite_results in one process
MaxCalls == 2

RandomIds == 0..MaxId

-----------------------------------------------------------------------------
(* The parameter grid. *)

ThroughputName == "cluster_throughput_mb_per_sec"

\* The dimensions update_parameters reads by name besides the throughput.
OtherNames == <<"num_producers", "consumer_groups", "duration_sec", "record_size_byte">>

NumDims == Len(OtherNames) + 1

\* Dimensions a grid may carry besides those: two names that agree in their
\* first 15 characters and one with a character a topic name may not hold.
ExtraNames == <<"num_partitions_in", "num_partitions_out", "client props">>

\* Throughput candidate lists: a capped one (all targets > 0) and one that
\* starts with the uncapped sentinels -1 and 0.
ThroughputVariants == {"capped", "uncapped"}

ThroughputCandidate(variant, i) ==
    IF variant = "capped"
    THEN (IF i = 1 THEN 10 ELSE IF i = 2 THEN 50 ELSE IF i = 3 THEN 100 ELSE 100 + 20 * (i - 3))
    ELSE (IF i = 1 THEN -1 ELSE IF i = 2 THEN 0 ELSE 120 * (i - 2))

RECURSIVE Pow2(_)
Pow2(n) == IF n = 0 THEN 1 ELSE 2 * Pow2(n - 1)

\* The i-th candidate (1-based) of a dimension in the enumerated grids.
Candidate(name, variant, i) ==
    CASE name = ThroughputName      -> ThroughputCandidate(variant, i)
      [] name = "num_producers"     -> Pow2(i - 1)
      [] name = "consumer_groups"   -> [num_groups |-> i - 1, size |-> 2 * (i - 1)]
      [] name = "duration_sec"      -> 60 * i
      [] name = "record_size_byte"  -> 1024 * i
      [] OTHER                      -> i

\* Name of the dimension at 0-based position pos when the throughput
\* dimension sits at position tpos and the others keep their relative order.
NameAt(tpos, pos) ==
    IF pos = tpos THEN ThroughputName
    ELSE IF pos < tpos THEN OtherNames[pos + 1]
    ELSE OtherNames[pos]

\* test_specification["parameters"] for a throughput position, a size per
\* position and a throughput variant.
MakeParameters(tpos, sizes, variant) ==
    [p \in 1..Len(sizes) |->
        [name  |-> NameAt(tpos, p - 1),
         cands |-> [i \in 1..sizes[p] |-> Candidate(NameAt(tpos, p - 1), variant, i)]]]

RECURSIVE Product(_)
Product(sizes) == IF sizes = <<>> THEN 1 ELSE Head(sizes) * Product(Tail(sizes))

\* Larger grids kept whatever the bounds: the 3 x 2 grid of the specification's
\* examples and a 2 x 2 x 2 grid, whose carries and skips cross two dimensions.
ExampleSizes == {<<3, 2, 1, 1, 1>>, <<2, 2, 2, 1, 1>>}

GridSizes(maxCand, maxCells) ==
    {s \in [1..NumDims -> 1..maxCand] : Product(s) <= maxCells} \cup ExampleSizes

\* Where in the key order the throughput dimension stands: first, second or last.
ThroughputPositions == {0, 1, NumDims - 1}

Grids ==
    {MakeParameters(tpos, sizes, variant) :
        tpos \in ThroughputPositions, sizes \in GridSizes(MaxCand, MaxCells),
        variant \in ThroughputVariants}

\* parameters.keys() as a list
Keys(parameters) == [p \in 1..Len(parameters) |-> parameters[p].name]

KeySet(parameters) == {parameters[p].name : p \in 1..Len(parameters)}

\* parameters[name]: the candidate list of the dimension called name
CandidatesOf(parameters, name) ==
    LET p == CHOOSE q \in 1..Len(parameters) : parameters[q].name = name
    IN  parameters[p].cands

-----------------------------------------------------------------------------
(* Skip conditions and feedback records. *)

\* A number n/d (d > 0).  A Python bool is the number 1 or 0.
Num(n, d) == [n |-> n, d |-> d]

Bool(b) == IF b THEN Num(1, 1) ELSE Num(0, 1)

Less(x, y) == x.n * y.d < y.n * x.d

MetricName == "sent_div_requested_mb_per_sec"

\* A condition is a JSON value: null, a number, a string, a dict with one
\* key whose value is a list, or a list.
NoCondition == [type |-> "none", key |-> "", num |-> Num(0, 1), args |-> <<>>]

Literal(n, d) == [type |-> "num", key |-> "", num |-> Num(n, d), args |-> <<>>]

Metric(name) == [type |-> "str", key |-> name, num |-> Num(0, 1), args |-> <<>>]

Comparison(key, args) == [type |-> "dict", key |-> key, num |-> Num(0, 1), args |-> args]

ListCondition(args) == [type |-> "list", key |-> "", num |-> Num(0, 1), args |-> args]

\* The conditions the enumerated specifications carry.
SkipConditions ==
    { NoCondition,
      Comparison("less-than", <<Metric(MetricName), Literal(9, 10)>>),
      Comparison("greater-than", <<Metric(MetricName), Literal(9, 10)>>),
      Comparison("equals", <<Metric(MetricName), Literal(9, 10)>>),
      Literal(0, 1) }

\* Python truthiness of a condition (test_parameters.py:45, "if skip_condition and ...")
Truthy(condition) ==
    CASE condition.type = "none" -> FALSE
      [] condition.type = "num"  -> condition.num.n # 0
      [] condition.type = "str"  -> condition.key # ""
      [] condition.type = "dict" -> condition.key # ""
      [] condition.type = "list" -> condition.args # <<>>

\* A producer result: the keys it holds and its mbPerSecSum.
EmptyResult == [keys |-> {}, mbPerSecSum |-> 0]

RateResult(mb) == [keys |-> {"records_sent", "mbPerSecSum"}, mbPerSecSum |-> mb]

\* A result whose output held no throughput line (run_test.py:480-484)
NoRateResult == [keys |-> {"records_sent"}, mbPerSecSum |-> 0]

\* Achieved rates (MB/sec) of the enumerated feedback records
Rates == {5, 100}

ProducerResults == {EmptyResult, NoRateResult} \cup {RateResult(mb) : mb \in Rates}

-----------------------------------------------------------------------------
(* The event (session) as one record. *)

NoTest == [index |-> <<>>, parameters |-> <<>>]

MakeEvent(spec, keys, test, result) ==
    [test_specification |-> spec, keys |-> keys, current_test |-> test,
     producer_result |-> result]

Event == MakeEvent(test_specification, event_keys, current_test, producer_result)

-----------------------------------------------------------------------------
(* evaluate_skip_condition *)

Value(v) == [err |-> "none", val |-> v]

Raise(e) == [err |-> e, val |-> Num(0, 1)]

\* evaluate_skip_condition with one of two slips switched on: unguarded
\* divides by the requested throughput whatever its sign (lines 92-93 left
\* out), lenient compares with <= and >= instead of < and >.
RECURSIVE EvaluateVariant(_, _, _, _)
EvaluateVariant(condition, event, unguarded, lenient) ==
    CASE condition.type = "dict" ->
            IF condition.key \in {"greater-than", "less-than"}
            THEN LET args == condition.args
                 IN  IF Len(args) < 1 THEN Raise("IndexError")
                     ELSE LET a == EvaluateVariant(args[1], event, unguarded, lenient)
                          IN  IF a.err # "none" THEN a
                              ELSE IF Len(args) < 2 THEN Raise("IndexError")
                              ELSE LET b == EvaluateVariant(args[2], event, unguarded, lenient)
                                   IN  IF b.err # "none" THEN b
                                       ELSE IF condition.key = "greater-than"
                                            THEN Value(Bool(IF lenient THEN ~Less(a.val, b.val)
                                                            ELSE Less(b.val, a.val)))
                                            ELSE Value(Bool(IF lenient THEN ~Less(b.val, a.val)
                                                            ELSE Less(a.val, b.val)))
            ELSE Raise("Exception")
      [] condition.type = "str" ->
            IF condition.key = MetricName
            THEN LET result == IF "producer_result" \in event.keys
                               THEN event.producer_result ELSE EmptyResult
                     mb_per_sec_sum == IF "mbPerSecSum" \in result.keys
                                       THEN result.mbPerSecSum ELSE 0
                     requested_throughput ==
                         event.current_test.parameters.cluster_throughput_mb_per_sec
                 IN  IF requested_throughput <= 0 /\ ~unguarded THEN Value(Num(1, 1))
                     ELSE IF requested_throughput = 0 THEN Raise("ZeroDivisionError")
                     ELSE IF requested_throughput < 0
                     THEN Value(Num(-mb_per_sec_sum, -requested_throughput))
                     ELSE Value(Num(mb_per_sec_sum, requested_throughput))
            ELSE Raise("Exception")
      [] condition.type = "num" -> Value(condition.num)
      [] OTHER -> Raise("Exception")

evaluate_skip_condition_unguarded(condition, event) ==
    EvaluateVariant(condition, event, TRUE, FALSE)

evaluate_skip_condition_lenient(condition, event) ==
    EvaluateVariant(condition, event, FALSE, TRUE)

RECURSIVE evaluate_skip_condition(_, _)
evaluate_skip_condition(condition, event) ==
    CASE condition.type = "dict" ->
            IF condition.key \in {"greater-than", "less-than"}
            THEN LET args == condition.args
                 IN  IF Len(args) < 1 THEN Raise("IndexError")
                     ELSE LET a == evaluate_skip_condition(args[1], event)
                          IN  IF a.err # "none" THEN a
                              ELSE IF Len(args) < 2 THEN Raise("IndexError")
                              ELSE LET b == evaluate_skip_condition(args[2], event)
                                   IN  IF b.err # "none" THEN b
                                       ELSE IF condition.key = "greater-than"
                                            THEN Value(Bool(Less(b.val, a.val)))
                                            ELSE Value(Bool(Less(a.val, b.val)))
            ELSE Raise("Exception")
      [] condition.type = "str" ->
            IF condition.key = MetricName
            THEN LET result == IF "producer_result" \in event.keys
                               THEN event.producer_result ELSE EmptyResult
                     mb_per_sec_sum == IF "mbPerSecSum" \in result.keys
                                       THEN result.mbPerSecSum ELSE 0
                     requested_throughput ==
                         event.current_test.parameters.cluster_throughput_mb_per_sec
                 IN  IF requested_throughput <= 0 THEN Value(Num(1, 1))
                     ELSE Value(Num(mb_per_sec_sum, requested_throughput))
            ELSE Raise("Exception")
      [] condition.type = "num" -> Value(condition.num)
      [] OTHER -> Raise("Exception")

\* Python truthiness of what evaluate_skip_condition returned
TruthyValue(v) == v.n # 0

-----------------------------------------------------------------------------
(* increment_test_index and skip_remaining_throughput.  rnd is the number   *)
(* the call's random.randint(0, 100000) returns, when it draws one.         *)

\* (index, series id) with the series id carried over from the current test
Carried(index, series) ==
    [overflow |-> FALSE, index |-> index, series |-> series, drawn |-> FALSE]

\* (index, series id) with the series id drawn by random.randint
Drawn(index, rnd) ==
    [overflow |-> FALSE, index |-> index, series |-> rnd, drawn |-> TRUE]

OverflowError == [overflow |-> TRUE, index |-> <<>>, series |-> 0, drawn |-> FALSE]

\* increment_test_index carrying without resetting the dimension it leaves
RECURSIVE increment_test_index_keep(_, _, _, _)
increment_test_index_keep(index, event, pos, rnd) ==
    LET parameters == Keys(event.test_specification.parameters)
    IN  IF ~(0 <= pos /\ pos < Len(parameters)) THEN OverflowError
        ELSE LET paramater_name == parameters[pos + 1]
                 parameter_value == index[paramater_name]
             IN  IF parameter_value + 1 <
                        Len(CandidatesOf(event.test_specification.parameters, paramater_name))
                 THEN Carried([index EXCEPT ![paramater_name] = parameter_value + 1],
                              event.current_test.parameters.throughput_series_id)
                 ELSE LET r == increment_test_index_keep(index, event, pos + 1, rnd)
                      IN  IF r.overflow THEN r
                          ELSE IF paramater_name = ThroughputName
                               THEN Drawn(r.index, rnd)
                               ELSE r

\* increment_test_index counting from the last dimension down
RECURSIVE increment_test_index_reversed(_, _, _, _)
increment_test_index_reversed(index, event, pos, rnd) ==
    LET parameters == Keys(event.test_specification.parameters)
    IN  IF ~(0 <= pos /\ pos < Len(parameters)) THEN OverflowError
        ELSE LET paramater_name == parameters[Len(parameters) - pos]
                 parameter_value == index[paramater_name]
             IN  IF parameter_value + 1 <
                        Len(CandidatesOf(event.test_specification.parameters, paramater_name))
                 THEN Carried([index EXCEPT ![paramater_name] = parameter_value + 1],
                              event.current_test.parameters.throughput_series_id)
                 ELSE LET r == increment_test_index_reversed([index EXCEPT ![paramater_name] = 0],
                                                             event, pos + 1, rnd)
                      IN  IF r.overflow THEN r
                          ELSE IF paramater_name = ThroughputName
                               THEN Drawn(r.index, rnd)
                               ELSE r

\* increment_test_index drawing a series id on every increment
RECURSIVE increment_test_index_redraw(_, _, _, _)
increment_test_index_redraw(index, event, pos, rnd) ==
    LET parameters == Keys(event.test_specification.parameters)
    IN  IF ~(0 <= pos /\ pos < Len(parameters)) THEN OverflowError
        ELSE LET paramater_name == parameters[pos + 1]
                 parameter_value == index[paramater_name]
             IN  IF parameter_value + 1 <
                        Len(CandidatesOf(event.test_specification.parameters, paramater_name))
                 THEN Drawn([index EXCEPT ![paramater_name] = parameter_value + 1], rnd)
                 ELSE LET r == increment_test_index_redraw([index EXCEPT ![paramater_name] = 0],
                                                           event, pos + 1, rnd)
                      IN  IF r.overflow THEN r ELSE Drawn(r.index, rnd)

RECURSIVE increment_test_index(_, _, _, _)
increment_test_index(index, event, pos, rnd) ==
    LET parameters == Keys(event.test_specification.parameters)
    IN  IF ~(0 <= pos /\ pos < Len(parameters)) THEN OverflowError
        ELSE LET paramater_name == parameters[pos + 1]
                 parameter_value == index[paramater_name]
             IN  IF parameter_value + 1 <
                        Len(CandidatesOf(event.test_specification.parameters, paramater_name))
                 THEN Carried([index EXCEPT ![paramater_name] = parameter_value + 1],
                              event.current_test.parameters.throughput_series_id)
                 ELSE LET r == increment_test_index([index EXCEPT ![paramater_name] = 0],
                                                    event, pos + 1, rnd)
                      IN  IF r.overflow THEN r
                          ELSE IF paramater_name = ThroughputName
                               THEN Drawn(r.index, rnd)
                               ELSE r

\* parameters.index("cluster_throughput_mb_per_sec"), 0-based
ThroughputIndex(parameters) ==
    (CHOOSE p \in 1..Len(parameters) : parameters[p].name = ThroughputName) - 1

\* skip_remaining_throughput incrementing from the throughput position itself
skip_remaining_throughput_inclusive(index, event, rnd) ==
    LET parameters == Keys(event.test_specification.parameters)
        throughput_index == ThroughputIndex(event.test_specification.parameters)
        reset_index == [name \in DOMAIN index |->
                          IF \E i \in 0..throughput_index : parameters[i + 1] = name
                          THEN 0 ELSE index[name]]
        r == increment_test_index(reset_index, event, throughput_index, rnd)
    IN  IF r.overflow THEN r ELSE Drawn(r.index, rnd)

\* skip_remaining_throughput handing back the current test's series id
skip_remaining_throughput_keep(index, event, rnd) ==
    LET parameters == Keys(event.test_specification.parameters)
        throughput_index == ThroughputIndex(event.test_specification.parameters)
        reset_index == [name \in DOMAIN index |->
                          IF \E i \in 0..throughput_index : parameters[i + 1] = name
                          THEN 0 ELSE index[name]]
        r == increment_test_index(reset_index, event, throughput_index + 1, rnd)
    IN  IF r.overflow THEN r
        ELSE Carried(r.index, event.current_test.parameters.throughput_series_id)

\* skip_remaining_throughput resetting the dimensions up to the throughput
\* position without advancing the one after it
skip_remaining_throughput_restart(index, event, rnd) ==
    LET parameters == Keys(event.test_specification.parameters)
        throughput_index == ThroughputIndex(event.test_specification.parameters)
        reset_index == [name \in DOMAIN index |->
                          IF \E i \in 0..throughput_index : parameters[i + 1] = name
                          THEN 0 ELSE index[name]]
    IN  Drawn(reset_index, rnd)

skip_remaining_throughput(index, event, rnd) ==
    LET parameters == Keys(event.test_specification.parameters)
        throughput_index == ThroughputIndex(event.test_specification.parameters)
        \* the index dict iterates in the grid's order: it is built from
        \* parameters.keys() and every update keeps the keys in place
        reset_index == [name \in DOMAIN index |->
                          IF \E i \in 0..throughput_index : parameters[i + 1] = name
                          THEN 0 ELSE index[name]]
        r == increment_test_index(reset_index, event, throughput_index + 1, rnd)
    IN  IF r.overflow THEN r ELSE Drawn(r.index, rnd)

-----------------------------------------------------------------------------
(* update_parameters *)

BytesPerMb == 1048576

LargeCount == 2147483647

\* (a * b) // c for a, b >= 0 and c > 0, computed without leaving 32 bits
MulDiv(a, b, c) == (a \div c) * b + ((a % c) * b) \div c

Max(a, b) == IF a >= b THEN a ELSE b

\* A dimension name character by character (a Python str is indexed by character).
Chars(name) ==
    CASE name = "cluster_throughput_mb_per_sec" ->
            <<"c", "l", "u", "s", "t", "e", "r", "_", "t", "h", "r", "o", "u", "g", "h", "p", "u", "t", "_", "m", "b", "_", "p", "e", "r", "_", "s", "e", "c">>
      [] name = "num_producers" ->
            <<"n", "u", "m", "_", "p", "r", "o", "d", "u", "c", "e", "r", "s">>
      [] name = "consumer_groups" ->
            <<"c", "o", "n", "s", "u", "m", "e", "r", "_", "g", "r", "o", "u", "p", "s">>
      [] name = "duration_sec" ->
            <<"d", "u", "r", "a", "t", "i", "o", "n", "_", "s", "e", "c">>
      [] name = "record_size_byte" ->
            <<"r", "e", "c", "o", "r", "d", "_", "s", "i", "z", "e", "_", "b", "y", "t", "e">>
      [] name = "num_partitions_in" ->
            <<"n", "u", "m", "_", "p", "a", "r", "t", "i", "t", "i", "o", "n", "s", "_", "i", "n">>
      [] name = "num_partitions_out" ->
            <<"n", "u", "m", "_", "p", "a", "r", "t", "i", "t", "i", "o", "n", "s", "_", "o", "u", "t">>
      [] name = "client props" ->
            <<"c", "l", "i", "e", "n", "t", " ", "p", "r", "o", "p", "s">>

\* [a-zA-Z0-9-], the characters re.sub leaves in place (line 169)
ValidChars ==
    {"a", "b", "c", "d", "e", "f", "g", "h", "i", "j", "k", "l", "m", "n", "o", "p", "q", "r", "s", "t", "u", "v", "w", "x", "y", "z",
     "A", "B", "C", "D", "E", "F", "G", "H", "I", "J", "K", "L", "M", "N", "O", "P", "Q", "R", "S", "T", "U", "V", "W", "X", "Y", "Z",
     "0", "1", "2", "3", "4", "5", "6", "7", "8", "9", "-"}

\* lambda x: re.sub(r'[^a-zA-Z0-9-]', '-', x.replace(' ', '-'))
remove_invalid_chars(x) == [i \in 1..Len(x) |-> IF x[i] \in ValidChars THEN x[i] ELSE "-"]

max_topic_property_length == 15

\* x[:n]
Take(x, n) == IF Len(x) <= n THEN x ELSE SubSeq(x, 1, n)

\* The str a sequence of characters spells
RECURSIVE Str(_)
Str(x) == IF x = <<>> THEN "" ELSE Head(x) \o Str(Tail(x))

\* remove_invalid_chars(k)[:max_topic_property_length], for every name the grids use
TopicProperties ==
    [name \in {ThroughputName} \cup {OtherNames[i] : i \in 1..Len(OtherNames)}
                \cup {ExtraNames[i] : i \in 1..Len(ExtraNames)} |->
        Str(Take(remove_invalid_chars(Chars(name)), max_topic_property_length))]

\* f"{remove_invalid_chars(k)[:max_topic_property_length]}-{v}"
TopicSegment(k, v) == TopicProperties[k] \o "-" \o ToString(v)

\* '--'.join(parts)
RECURSIVE Join(_)
Join(parts) ==
    IF parts = <<>> THEN ""
    ELSE IF Len(parts) = 1 THEN parts[1]
    ELSE parts[1] \o "--" \o Join(Tail(parts))

\* topic_name cutting each formatted "name-value" segment, not the name, to
\* max_topic_property_length characters (index values below 10).
topic_name_cut(keys, index, test_id, throughput_series_id) ==
    "test-id-" \o ToString(test_id) \o "--throughput-series-id-"
        \o ToString(throughput_series_id) \o "--"
        \o Join([p \in 1..Len(keys) |->
                   LET length == Len(Take(Chars(keys[p]), max_topic_property_length))
                   IN  IF length + 2 <= max_topic_property_length
                       THEN TopicSegment(keys[p], index[keys[p]])
                       ELSE IF length + 1 <= max_topic_property_length
                       THEN TopicProperties[keys[p]] \o "-"
                       ELSE TopicProperties[keys[p]]])

\* topic_name formatting the dimension names as they are, without remove_invalid_chars
topic_name_raw(keys, index, test_id, throughput_series_id) ==
    "test-id-" \o ToString(test_id) \o "--throughput-series-id-"
        \o ToString(throughput_series_id) \o "--"
        \o Join([p \in 1..Len(keys) |->
                   Str(Take(Chars(keys[p]), max_topic_property_length))
                       \o "-" \o ToString(index[keys[p]])])

\* Lines 171-173; the index dict iterates in the grid's key order.
topic_name(keys, index, test_id, throughput_series_id) ==
    "test-id-" \o ToString(test_id) \o "--throughput-series-id-"
        \o ToString(throughput_series_id) \o "--"
        \o Join([p \in 1..Len(keys) |-> TopicSegment(keys[p], index[keys[p]])])

\* Line 174
depletion_topic_name(test_id, throughput_series_id) ==
    "test-id-" \o ToString(test_id) \o "--throughput-series-id-"
        \o ToString(throughput_series_id) \o "--depletion"

Some(index) == [is_none |-> FALSE, index |-> index]

None == [is_none |-> TRUE, index |-> <<>>]

\* update_parameters with one slip switched on:
\*   "cluster_rate"    the producer byte rate is not divided by num_producers
\*   "zero_is_capped"  only a negative target counts as uncapped (>= 0 for > 0)
\*   "all_consumers"   the consumer byte rate is divided by num_groups * size
\*   "groups_as_jobs"  num_jobs counts one job per consumer group
\*   "first_candidate" every dimension is looked up at its first candidate
UpdateVariant(spec, updated_test_index, test_id, throughput_series_id, slip) ==
    IF updated_test_index.is_none
    THEN MakeEvent(spec, {"all_tests_completed"}, NoTest, EmptyResult)
    ELSE LET index == updated_test_index.index
             value(name) == IF slip = "first_candidate"
                            THEN CandidatesOf(spec.parameters, name)[1]
                            ELSE CandidatesOf(spec.parameters, name)[index[name] + 1]
             throughput == value(ThroughputName)
             num_producers == value("num_producers")
             consumer_groups == value("consumer_groups")
             duration_sec == value("duration_sec")
             record_size_byte == value("record_size_byte")
             capped == IF slip = "zero_is_capped" THEN throughput >= 0 ELSE throughput > 0
             consumers == IF slip = "all_consumers"
                          THEN consumer_groups.num_groups * consumer_groups.size
                          ELSE consumer_groups.size
             producer_throughput_byte ==
                 IF capped
                 THEN (IF slip = "cluster_rate" THEN throughput * BytesPerMb
                       ELSE (throughput * BytesPerMb) \div num_producers)
                 ELSE -1
             consumer_throughput_byte ==
                 IF capped
                 THEN (IF consumers > 0 THEN (throughput * BytesPerMb) \div consumers ELSE 0)
                 ELSE -1
             num_records_producer ==
                 IF capped
                 THEN MulDiv(producer_throughput_byte, duration_sec, record_size_byte)
                 ELSE LargeCount
             num_records_consumer ==
                 IF capped
                 THEN MulDiv(consumer_throughput_byte, duration_sec, record_size_byte)
                 ELSE LargeCount
             updated_parameters ==
                 [cluster_throughput_mb_per_sec |-> throughput,
                  num_producers |-> num_producers,
                  consumer_groups |-> consumer_groups,
                  duration_sec |-> duration_sec,
                  record_size_byte |-> record_size_byte,
                  num_jobs |-> IF slip = "groups_as_jobs"
                               THEN num_producers + consumer_groups.num_groups
                               ELSE num_producers
                                        + consumer_groups.num_groups * consumer_groups.size,
                  producer_throughput |-> producer_throughput_byte,
                  records_per_sec |->
                      IF producer_throughput_byte > 0
                      THEN Max(1, producer_throughput_byte \div record_size_byte) ELSE -1,
                  num_records_producer |-> num_records_producer,
                  num_records_consumer |-> num_records_consumer,
                  test_id |-> test_id,
                  throughput_series_id |-> throughput_series_id,
                  topic_name |->
                      topic_name(Keys(spec.parameters), index, test_id, throughput_series_id),
                  depletion_topic_name |-> depletion_topic_name(test_id, throughput_series_id),
                  others |-> [name \in KeySet(spec.parameters)
                                          \ ({ThroughputName}
                                                \cup {OtherNames[i] : i \in 1..Len(OtherNames)}) |->
                                 value(name)]]
         IN  MakeEvent(spec, {"current_test"},
                       [index |-> index, parameters |-> updated_parameters], EmptyResult)

update_parameters_cluster_rate(spec, updated_test_index, test_id, throughput_series_id) ==
    UpdateVariant(spec, updated_test_index, test_id, throughput_series_id, "cluster_rate")

update_parameters_zero_is_capped(spec, updated_test_index, test_id, throughput_series_id) ==
    UpdateVariant(spec, updated_test_index, test_id, throughput_series_id, "zero_is_capped")

update_parameters_all_consumers(spec, updated_test_index, test_id, throughput_series_id) ==
    UpdateVariant(spec, updated_test_index, test_id, throughput_series_id, "all_consumers")

update_parameters_groups_as_jobs(spec, updated_test_index, test_id, throughput_series_id) ==
    UpdateVariant(spec, updated_test_index, test_id, throughput_series_id, "groups_as_jobs")

update_parameters_first_candidate(spec, updated_test_index, test_id, throughput_series_id) ==
    UpdateVariant(spec, updated_test_index, test_id, throughput_series_id, "first_candidate")

update_parameters(spec, updated_test_index, test_id, throughput_series_id) ==
    IF updated_test_index.is_none
    THEN MakeEvent(spec, {"all_tests_completed"}, NoTest, EmptyResult)
    ELSE LET index == updated_test_index.index
             value(name) == CandidatesOf(spec.parameters, name)[index[name] + 1]
             throughput == value(ThroughputName)
             num_producers == value("num_producers")
             consumer_groups == value("consumer_groups")
             duration_sec == value("duration_sec")
             record_size_byte == value("record_size_byte")
             producer_throughput_byte ==
                 IF throughput > 0 THEN (throughput * BytesPerMb) \div num_producers ELSE -1
             consumer_throughput_byte ==
                 IF throughput > 0
                 THEN (IF consumer_groups.size > 0
                       THEN (throughput * BytesPerMb) \div consumer_groups.size ELSE 0)
                 ELSE -1
             num_records_producer ==
                 IF throughput > 0
                 THEN MulDiv(producer_throughput_byte, duration_sec, record_size_byte)
                 ELSE LargeCount
             num_records_consumer ==
                 IF throughput > 0
                 THEN MulDiv(consumer_throughput_byte, duration_sec, record_size_byte)
                 ELSE LargeCount
             updated_parameters ==
                 [cluster_throughput_mb_per_sec |-> throughput,
                  num_producers |-> num_producers,
                  consumer_groups |-> consumer_groups,
                  duration_sec |-> duration_sec,
                  record_size_byte |-> record_size_byte,
                  num_jobs |-> num_producers + consumer_groups.num_groups * consumer_groups.size,
                  producer_throughput |-> producer_throughput_byte,
                  records_per_sec |->
                      IF producer_throughput_byte > 0
                      THEN Max(1, producer_throughput_byte \div record_size_byte) ELSE -1,
                  num_records_producer |-> num_records_producer,
                  num_records_consumer |-> num_records_consumer,
                  test_id |-> test_id,
                  throughput_series_id |-> throughput_series_id,
                  topic_name |->
                      topic_name(Keys(spec.parameters), index, test_id, throughput_series_id),
                  depletion_topic_name |-> depletion_topic_name(test_id, throughput_series_id),
                  \* the dimensions update_parameters does not read by name
                  others |-> [name \in KeySet(spec.parameters)
                                          \ ({ThroughputName}
                                                \cup {OtherNames[i] : i \in 1..Len(OtherNames)}) |->
                                 value(name)]]
         IN  MakeEvent(spec, {"current_test"},
                       [index |-> index, parameters |-> updated_parameters], EmptyResult)

-----------------------------------------------------------------------------
(* update_parameters_for_depletion *)

\* test_specification["depletion_configuration"], a key a specification may lack
NoDepletion == [present |-> FALSE, approximate_timeout_hours |-> 0]

DepletionConfiguration(hours) == [present |-> TRUE, approximate_timeout_hours |-> hours]

\* [value] * len(candidates) for the dimension called name, the others as they are
Overwrite(parameters, name, value) ==
    [p \in 1..Len(parameters) |->
        IF parameters[p].name = name
        THEN [parameters[p] EXCEPT !.cands = [i \in 1..Len(@) |-> value]]
        ELSE parameters[p]]

\* update_parameters_for_depletion writing the two candidate lists into the
\* grid it was given (test_parameters["duration_sec"] = ...) instead of
\* into a copy.
update_parameters_for_depletion_in_place(event) ==
    LET spec == event.test_specification
        test_parameters == spec.parameters
    IN  IF "current_test" \notin event.keys
        THEN [err |-> "KeyError", event |-> event, given |-> event]
        ELSE IF ~spec.depletion_configuration.present
        THEN [err |-> "KeyError", event |-> event, given |-> event]
        ELSE LET depletion_duration_sec ==
                     spec.depletion_configuration.approximate_timeout_hours * 60 * 60
                 depletion_parameters ==
                     Overwrite(Overwrite(test_parameters, "duration_sec", depletion_duration_sec),
                               ThroughputName, -1)
                 overwritten == [spec EXCEPT !.parameters = depletion_parameters]
             IN  [err |-> "none",
                  event |-> update_parameters(overwritten, Some(event.current_test.index),
                                              event.current_test.parameters.test_id,
                                              event.current_test.parameters.throughput_series_id),
                  given |-> [event EXCEPT !.test_specification = overwritten]]

\* Answers the returned event, or the KeyError a missing key raises, and
\* the event it was given as the call leaves it: no statement of the
\* function assigns into the event or into a dict or list reachable from it.
update_parameters_for_depletion(event) ==
    LET spec == event.test_specification
        test_parameters == spec.parameters
    IN  IF "current_test" \notin event.keys
        THEN [err |-> "KeyError", event |-> event, given |-> event]
        ELSE IF ~spec.depletion_configuration.present
        THEN [err |-> "KeyError", event |-> event, given |-> event]
        ELSE LET test_index == event.current_test.index
                 test_id == event.current_test.parameters.test_id
                 throughput_series_id == event.current_test.parameters.throughput_series_id
                 depletion_duration_sec ==
                     spec.depletion_configuration.approximate_timeout_hours * 60 * 60
                 depletion_parameters ==
                     Overwrite(Overwrite(test_parameters, "duration_sec", depletion_duration_sec),
                               ThroughputName, -1)
             IN  [err |-> "none",
                  event |-> update_parameters([spec EXCEPT !.parameters = depletion_parameters],
                                              Some(test_index), test_id, throughput_series_id),
                  given |-> event]

-----------------------------------------------------------------------------
(* increment_index_and_update_parameters.  series_rnd and test_rnd are the  *)
(* numbers its random.randint(0, 100000) calls return: series_rnd for the   *)
(* series id (lines 58, 62, 132, 243), test_rnd for the test id (line 64).  *)

Returned(event, path, evald, drawn) ==
    [err |-> "none", event |-> event, branch |-> path, evaluated |-> evald, drawn |-> drawn]

Failed(e, event) ==
    [err |-> e, event |-> event, branch |-> "raised", evaluated |-> TRUE, drawn |-> FALSE]

\* Finish starting the grid over when the increment overflows
Finish_wrap(spec, r, series_rnd, test_rnd, path, evald) ==
    IF r.overflow
    THEN Returned(update_parameters(spec, Some([name \in KeySet(spec.parameters) |-> 0]),
                                    test_rnd, series_rnd), path, evald, TRUE)
    ELSE Returned(update_parameters(spec, Some(r.index), test_rnd, r.series), path, evald, r.drawn)

\* lines 55-58 and 64: an OverflowError ends the sweep, anything else is materialized
Finish(spec, r, series_rnd, test_rnd, path, evald) ==
    IF r.overflow
    THEN Returned(update_parameters(spec, None, test_rnd, series_rnd), "completed", evald, TRUE)
    ELSE Returned(update_parameters(spec, Some(r.index), test_rnd, r.series), path, evald, r.drawn)

\* increment_index_and_update_parameters with two slips switched on or off:
\* eager skips whenever the condition was evaluated, whatever it answered;
\* unguarded evaluates the condition on the first step as well, where the
\* event holds no current test to read the requested throughput from.
StepVariant(event, series_rnd, test_rnd, eager, unguarded) ==
    LET spec == event.test_specification
        skip_condition == spec.skip_remaining_throughput
        evaluates == /\ Truthy(skip_condition)
                     /\ "producer_result" \in event.keys
                     /\ event.producer_result.keys # {}
    IN  IF "current_test" \in event.keys
        THEN LET previous_test_index == event.current_test.index
             IN  IF evaluates
                 THEN LET e == evaluate_skip_condition(skip_condition, event)
                      IN  IF e.err # "none" THEN Failed(e.err, event)
                          ELSE IF eager \/ TruthyValue(e.val)
                          THEN Finish(spec,
                                      skip_remaining_throughput(previous_test_index, event, series_rnd),
                                      series_rnd, test_rnd, "skip", TRUE)
                          ELSE Finish(spec,
                                      increment_test_index(previous_test_index, event, 0, series_rnd),
                                      series_rnd, test_rnd, "increment", TRUE)
                 ELSE Finish(spec,
                             increment_test_index(previous_test_index, event, 0, series_rnd),
                             series_rnd, test_rnd, "increment", FALSE)
        ELSE IF unguarded /\ evaluates
             THEN Failed("KeyError", event)
             ELSE Returned(update_parameters(spec,
                                             Some([name \in KeySet(spec.parameters) |-> 0]),
                                             test_rnd, series_rnd),
                           "first", FALSE, TRUE)

increment_index_and_update_parameters_eager(event, series_rnd, test_rnd) ==
    StepVariant(event, series_rnd, test_rnd, TRUE, FALSE)

increment_index_and_update_parameters_unguarded(event, series_rnd, test_rnd) ==
    StepVariant(event, series_rnd, test_rnd, FALSE, TRUE)

\* increment_index_and_update_parameters handing the event it was given back
\* updated (event["current_test"] = ...) instead of a new dict, so that the
\* producer_result it was called with stays in the session.
increment_index_and_update_parameters_retain(event, series_rnd, test_rnd) ==
    LET r == StepVariant(event, series_rnd, test_rnd, FALSE, FALSE)
    IN  IF r.err = "none" /\ "current_test" \in r.event.keys /\ "producer_result" \in event.keys
        THEN [r EXCEPT !.event.keys = @ \cup {"producer_result"},
                       !.event.producer_result = event.producer_result]
        ELSE r

increment_index_and_update_parameters(event, series_rnd, test_rnd) ==
    LET spec == event.test_specification
    IN  IF "current_test" \in event.keys
        THEN LET previous_test_index == event.current_test.index
                 skip_condition == spec.skip_remaining_throughput
             IN  IF /\ Truthy(skip_condition)
                    /\ "producer_result" \in event.keys
                    /\ event.producer_result.keys # {}
                 THEN LET e == evaluate_skip_condition(skip_condition, event)
                      IN  IF e.err # "none" THEN Failed(e.err, event)
                          ELSE IF TruthyValue(e.val)
                          THEN Finish(spec,
                                      skip_remaining_throughput(previous_test_index, event, series_rnd),
                                      series_rnd, test_rnd, "skip", TRUE)
                          ELSE Finish(spec,
                                      increment_test_index(previous_test_index, event, 0, series_rnd),
                                      series_rnd, test_rnd, "increment", TRUE)
                 ELSE Finish(spec,
                             increment_test_index(previous_test_index, event, 0, series_rnd),
                             series_rnd, test_rnd, "increment", FALSE)
        ELSE Returned(update_parameters(spec,
                                        Some([name \in KeySet(spec.parameters) |-> 0]),
                                        test_rnd, series_rnd),
                      "first", FALSE, TRUE)

-----------------------------------------------------------------------------
(* The engine driven call by call. *)

Specifications(grids, conditions) ==
    {[parameters |-> g, skip_remaining_throughput |-> c] : g \in grids, c \in conditions}

\* Nothing returned yet by a direct call of evaluate_skip_condition
NoValue == [err |-> "none", val |-> Num(0, 1)]

\* The shared generator as Python leaves it after "random.seed()" (line 24)
\* or at interpreter start: seeded from the operating system's entropy.
Entropy == [seeded |-> FALSE, seed |-> 0, pos |-> 0]

\* seed = None
NoSeed == -1

\* The calls of generate_full_test_suite_results in this process so far:
\* how many returned, the seed argument of the running (or last) call, and
\* the seed and the results of the last two calls that returned.
NoResults ==
    [calls |-> 0, seed |-> NoSeed, last_seed |-> NoSeed, last |-> <<>>,
     before_seed |-> NoSeed, before |-> <<>>]

\* The state a loaded specification is in: no current test, nothing attached.
Loaded(specs, pc) ==
    /\ test_specification \in specs
    /\ event_keys = {}
    /\ current_test = NoTest
    /\ producer_result = EmptyResult
    /\ raised = "none"
    /\ branch = "new"
    /\ evaluated = FALSE
    /\ minted = FALSE
    /\ fed = FALSE
    /\ emitted = <<>>
    /\ test_count = 0
    /\ suite_pc = pc
    /\ returned = NoValue
    /\ rng = Entropy
    /\ imported = TRUE
    /\ all_results = <<>>
    /\ previous_results = NoResults

Init == Loaded(Specifications(Grids, SkipConditions), "idle")

\* The history of emitted indexes after a step that took path and returned event
Emit(path, event) ==
    CASE path = "first" -> <<event.current_test.index>>
      [] path \in {"increment", "skip"} -> Append(emitted, event.current_test.index)
      [] OTHER -> emitted

\* The variables after a call of increment_index_and_update_parameters answered r;
\* history is the emitted indexes to record.
Answer(r, history) ==
    /\ raised' = r.err
    /\ event_keys' = r.event.keys
    /\ current_test' = r.event.current_test
    /\ producer_result' = r.event.producer_result
    /\ branch' = r.branch
    /\ evaluated' = r.evaluated
    /\ minted' = r.drawn
    /\ fed' = (("producer_result" \in event_keys) \/ (r.branch # "first" /\ fed))
    /\ emitted' = history
    /\ test_specification' = r.event.test_specification

\* The caller calls increment_index_and_update_parameters(event) and keeps the result.
Step ==
    /\ suite_pc = "idle"
    /\ raised = "none"
    /\ \E series_rnd \in RandomIds, test_rnd \in RandomIds :
          \E r \in {increment_index_and_update_parameters(Event, series_rnd, test_rnd)} :
             Answer(r, Emit(r.branch, r.event))
    /\ UNCHANGED <<test_count, suite_pc>>
    /\ UNCHANGED extras

\* The caller sets event["producer_result"]: to the result of the test it
\* ran, or in the event it first passes in.  No caller attaches a result to
\* a completed event.
AttachFeedback ==
    /\ suite_pc = "idle"
    /\ raised = "none"
    /\ "producer_result" \notin event_keys
    /\ "all_tests_completed" \notin event_keys
    /\ \E result \in ProducerResults :
          /\ producer_result' = result
          /\ event_keys' = event_keys \cup {"producer_result"}
    /\ UNCHANGED <<test_specification, current_test, raised, branch, evaluated,
                   minted, fed, emitted, test_count, suite_pc>>
    /\ UNCHANGED extras

Next == Step \/ AttachFeedback

Spec == Init /\ [][Next]_vars

-----------------------------------------------------------------------------
(* KafkaPerformanceTester.run_test_suite: the loop around the engine. *)

max_tests == 1000

\* A grid of more than max_tests cells (11 * 10 * 10), throughput least significant.
BigSizes == <<11, 10, 10, 1, 1>>

BigGrid == MakeParameters(0, BigSizes, "capped")

\* A condition that no feedback satisfies (the ratio is never below 0).
NeverCondition == Comparison("less-than", <<Metric(MetricName), Literal(0, 1)>>)

SuiteInit ==
    Loaded(Specifications(Grids, SkipConditions)
               \cup Specifications({BigGrid}, {NoCondition, NeverCondition}),
           "loop")

\* Lines 720-727: the check after the test.  first_result is
\* results['producer_results'][0], or {} when the test produced none.
\* Answers the exception that leaves the check ("none" when it passes).
CheckSkipCondition(event) ==
    LET skip_condition == event.test_specification.skip_remaining_throughput
        e == evaluate_skip_condition(skip_condition, event)
    IN  IF e.err # "none" THEN e.err
        ELSE IF /\ TruthyValue(e.val)
                /\ event.current_test.parameters.cluster_throughput_mb_per_sec = 0
             THEN "ZeroDivisionError"
             ELSE "none"

\* The event after lines 720-727 and the exception that leaves them.
AfterTest(r, first_result) ==
    LET attached == [r.event EXCEPT !.keys = @ \cup {"producer_result"},
                                    !.producer_result = first_result]
    IN  IF r.event.test_specification.skip_remaining_throughput.type # "none"
        THEN [r EXCEPT !.event = attached, !.err = CheckSkipCondition(attached)]
        ELSE r

\* One pass through the body of "while test_count < max_tests" (lines 697-727).
\* The suite keeps no history of the emitted indexes.
SuiteIteration ==
    /\ suite_pc = "loop"
    /\ test_count < max_tests
    /\ \E series_rnd \in RandomIds, test_rnd \in RandomIds :
          \E r \in {increment_index_and_update_parameters(Event, series_rnd, test_rnd)} :
             IF r.err # "none"
             THEN /\ Answer(r, emitted)
                  /\ suite_pc' = "crashed"
                  /\ UNCHANGED test_count
             ELSE IF "all_tests_completed" \in r.event.keys
             THEN /\ Answer(r, emitted)
                  /\ suite_pc' = "returned"
                  /\ UNCHANGED test_count
             ELSE \E first_result \in ProducerResults :
                     \E after \in {AfterTest(r, first_result)} :
                        /\ Answer(after, emitted)
                        /\ test_count' = test_count + 1
                        /\ suite_pc' = IF after.err = "none" THEN "loop" ELSE "crashed"
    /\ UNCHANGED extras

\* The loop condition fails: "return all_results" (line 729).
SuiteReturn ==
    /\ suite_pc = "loop"
    /\ test_count >= max_tests
    /\ suite_pc' = "returned"
    /\ UNCHANGED <<test_specification, event_keys, current_test, producer_result,
                   raised, branch, evaluated, minted, fed, emitted, test_count>>
    /\ UNCHANGED extras

SuiteNext == SuiteIteration \/ SuiteReturn

SuiteSpec == SuiteInit /\ [][SuiteNext]_vars

-----------------------------------------------------------------------------
(* A sweep whose caller, between two steps, may have the depletion variant *)
(* of the current test computed and go on with the session it holds.       *)

\* The example grids, throughput first or second, with a depletion
\* configuration; no condition, a usable one, or one that names a metric
\* evaluate_skip_condition does not know.
SessionSpecifications ==
    {[parameters |-> MakeParameters(tpos, sizes, "capped"),
      skip_remaining_throughput |-> c,
      depletion_configuration |-> DepletionConfiguration(1)] :
        tpos \in {0, 1}, sizes \in ExampleSizes,
        c \in {NoCondition,
               Comparison("less-than", <<Metric(MetricName), Literal(9, 10)>>),
               Comparison("greater-than", <<Literal(1, 1), Metric("received_mb_per_sec")>>)}}

SessionInit == Loaded(SessionSpecifications, "idle")

\* update_parameters_for_depletion(event); the caller goes on with the event
\* it passed, as the call left it.
DepletionAside ==
    /\ suite_pc = "idle"
    /\ raised = "none"
    /\ \E r \in {update_parameters_for_depletion(Event)} :
          /\ raised' = r.err
          /\ test_specification' = r.given.test_specification
          /\ event_keys' = r.given.keys
          /\ current_test' = r.given.current_test
          /\ producer_result' = r.given.producer_result
    /\ branch' = "depletion"
    /\ UNCHANGED <<evaluated, minted, fed, emitted, test_count, suite_pc>>
    /\ UNCHANGED extras

SessionNext == Step \/ AttachFeedback \/ DepletionAside

SessionSpec == SessionInit /\ [][SessionNext]_vars

-----------------------------------------------------------------------------
(* evaluate_skip_condition called on its own, as run_test_suite calls it    *)
(* after a test (run_test.py:726), over a wider range of expressions.       *)

Operands ==
    {Literal(0, 1), Literal(9, 10), Literal(1, 1), Literal(2, 1), Metric(MetricName),
     Comparison("less-than", <<Metric(MetricName), Literal(9, 10)>>)}

Comparisons(operands) ==
    {Comparison(key, <<a, b>>) : key \in {"less-than", "greater-than"},
                                 a \in operands, b \in operands}

\* Shapes outside the grammar: wrong key, no / one / three operands, an
\* unknown name, a list, null, a malformed operand.
OtherShapes ==
    {Comparison("equals", <<Metric(MetricName), Literal(9, 10)>>),
     Comparison("less-than", <<>>),
     Comparison("less-than", <<Metric(MetricName)>>),
     Comparison("less-than", <<Metric(MetricName), Literal(9, 10), Literal(2, 1)>>),
     Metric("received_mb_per_sec"),
     ListCondition(<<Metric(MetricName), Literal(9, 10)>>),
     NoCondition,
     Comparison("greater-than", <<Literal(1, 1), Metric("received_mb_per_sec")>>)}

EvalConditions == Operands \cup Comparisons(Operands) \cup OtherShapes

\* Three throughput targets, capped (10, 50, 100) or uncapped (-1, 0, 120)
EvalGrids == {MakeParameters(0, <<3, 1, 1, 1, 1>>, variant) : variant \in ThroughputVariants}

\* The length of the longest candidate list
Widest(parameters) ==
    LET lengths == {Len(parameters[p].cands) : p \in 1..Len(parameters)}
    IN  CHOOSE n \in lengths : \A m \in lengths : m <= n

\* Every index of a grid
Indexes(parameters) ==
    {index \in [KeySet(parameters) -> 0..(Widest(parameters) - 1)] :
        \A p \in 1..Len(parameters) : index[parameters[p].name] < Len(parameters[p].cands)}

\* An event with a current test, with or without a producer_result attached
EvalInit ==
    /\ test_specification \in Specifications(EvalGrids, EvalConditions)
    /\ \E index \in Indexes(test_specification.parameters) :
          current_test =
              update_parameters(test_specification, Some(index), 0, 0).current_test
    /\ \E attached \in BOOLEAN :
          /\ event_keys = IF attached THEN {"current_test", "producer_result"}
                          ELSE {"current_test"}
          /\ producer_result \in IF attached THEN ProducerResults ELSE {EmptyResult}
    /\ raised = "none"
    /\ branch = "new"
    /\ evaluated = FALSE
    /\ minted = FALSE
    /\ fed = FALSE
    /\ emitted = <<>>
    /\ test_count = 0
    /\ suite_pc = "call"
    /\ returned = NoValue
    /\ rng = Entropy
    /\ imported = TRUE
    /\ all_results = <<>>
    /\ previous_results = NoResults

\* evaluate_skip_condition(skip_condition, event)
Evaluate ==
    /\ suite_pc = "call"
    /\ returned' = evaluate_skip_condition(test_specification.skip_remaining_throughput, Event)
    /\ raised' = returned'.err
    /\ evaluated' = TRUE
    /\ suite_pc' = "called"
    /\ UNCHANGED <<test_specification, event_keys, current_test, producer_result,
                   branch, minted, fed, emitted, test_count,
                   rng, imported, all_results, previous_results>>

EvalNext == Evaluate

EvalSpec == EvalInit /\ [][EvalNext]_vars

-----------------------------------------------------------------------------
(* update_parameters and update_parameters_for_depletion called on their    *)
(* own, over grids whose values make the derived quantities tell.           *)

Dimension(name, cands) == [name |-> name, cands |-> cands]

\* Targets -1, 0, 120 and 7 MB/sec; 4 or 3 producers; no consumers or two
\* groups of three; byte rates that the producers, the group size and the
\* record size divide with and without remainder.
ArithmeticGrid ==
    << Dimension(ThroughputName, <<-1, 0, 120, 7>>),
       Dimension("num_producers", <<4, 3>>),
       Dimension("consumer_groups", <<[num_groups |-> 0, size |-> 0],
                                      [num_groups |-> 2, size |-> 3]>>),
       Dimension("duration_sec", <<60, 90>>),
       Dimension("record_size_byte", <<1024, 1000>>) >>

\* The five dimensions update_parameters reads, one candidate each, and the
\* extra dimensions with two candidates each.
NameGrid ==
    MakeParameters(0, <<1, 1, 1, 1, 1>>, "capped")
        \o [p \in 1..Len(ExtraNames) |->
               Dimension(ExtraNames[p], <<Candidate(ExtraNames[p], "capped", 1),
                                          Candidate(ExtraNames[p], "capped", 2)>>)]

TimeoutHours == {1, 24}

MaterializeSpecifications ==
    {[parameters |-> g, skip_remaining_throughput |-> NoCondition,
      depletion_configuration |-> d] :
        g \in {ArithmeticGrid, NameGrid},
        d \in {NoDepletion} \cup {DepletionConfiguration(hours) : hours \in TimeoutHours}}

MaterializeInit == Loaded(MaterializeSpecifications, "idle")

\* update_parameters(test_specification, updated_test_index, test_id, throughput_series_id)
\* for an index of the grid, or None
Materialize ==
    /\ suite_pc = "idle"
    /\ \E updated_test_index \in {None} \cup {Some(index) : index \in Indexes(test_specification.parameters)},
          test_id \in RandomIds, throughput_series_id \in RandomIds :
          \E event \in {update_parameters(test_specification, updated_test_index,
                                           test_id, throughput_series_id)} :
             /\ event_keys' = event.keys
             /\ current_test' = event.current_test
             /\ producer_result' = event.producer_result
    /\ branch' = "materialized"
    /\ UNCHANGED <<test_specification, raised, evaluated, minted, fed, emitted,
                   test_count, suite_pc>>
    /\ UNCHANGED extras

\* update_parameters_for_depletion(event); the caller keeps what it returns.
Deplete ==
    /\ suite_pc = "idle"
    /\ \E r \in {update_parameters_for_depletion(Event)} :
          /\ raised' = r.err
          /\ test_specification' = r.event.test_specification
          /\ event_keys' = r.event.keys
          /\ current_test' = r.event.current_test
          /\ producer_result' = r.event.producer_result
    /\ branch' = "depleted"
    /\ suite_pc' = "depleted"
    /\ UNCHANGED <<evaluated, minted, fed, emitted, test_count>>
    /\ UNCHANGED extras

MaterializeNext == Materialize \/ Deplete

MaterializeSpec == MaterializeInit /\ [][MaterializeNext]_vars

-----------------------------------------------------------------------------
(* MockDataGenerator.generate_full_test_suite_results: a sweep driven with  *)
(* generated results, ids and results drawn from Python's shared generator. *)
(* The generator's state is the seed it was last given and the number of    *)
(* calls made on it since (pos), or entropy when nothing seeded it.         *)

\* random.seed(seed)
Seeded(seed) == [seeded |-> TRUE, seed |-> seed, pos |-> 0]

\* What the call number pos (0-based) on a generator seeded with seed
\* returns, as a number below n: a fixed function of seed and pos.
Rand(seed, pos, n) == ((seed + 1) * (pos + 3) + pos * pos) % n

\* The values the next two random.randint(0, 100000) calls can return
TwoInts(g) ==
    IF g.seeded
    THEN {<<Rand(g.seed, g.pos, MaxId + 1), Rand(g.seed, g.pos + 1, MaxId + 1)>>}
    ELSE RandomIds \X RandomIds

\* The generator after n more calls
Advance(g, n) == IF g.seeded THEN [g EXCEPT !.pos = @ + n] ELSE g

\* increment_index_and_update_parameters(event) on generator g: the series
\* id, when the call draws one (lines 58, 62, 132, 243), is drawn before
\* the test id (line 64).  Answers the possible results, each with the
\* generator it leaves.
StepOn(event, g) ==
    {LET first == increment_index_and_update_parameters(event, d[1], d[1])
     IN  IF first.drawn
         THEN [r |-> increment_index_and_update_parameters(event, d[1], d[2]),
               rng |-> Advance(g, 2)]
         ELSE [r |-> first, rng |-> Advance(g, 1)] : d \in TwoInts(g)}

\* actual_throughput_ratio in percent: random.gauss clipped to [0.95, 1.02]
MockRatios == <<96, 102>>

\* Calls on the generator in generate_producer_result and in
\* generate_consumer_result (when it generates anything)
CallsPerProducer == 7

CallsPerConsumer == 3

\* The call of generate_producer_result that draws the ratio (line 94), 0-based
RatioCall == 3

\* Calls on the generator in generate_test_results(test_params)
MockCalls(test_params) ==
    CallsPerProducer * test_params.num_producers
        + (IF test_params.consumer_groups.num_groups > 0
              /\ test_params.cluster_throughput_mb_per_sec > 0
           THEN CallsPerConsumer * test_params.consumer_groups.num_groups
                    * test_params.consumer_groups.size
           ELSE 0)

\* mbPerSecSum of results['producer_results'][0] for a ratio in percent:
\* the per-producer rate times num_producers (lines 45-49, 96, 111)
MockRate(test_params, percent) ==
    IF test_params.cluster_throughput_mb_per_sec > 0
    THEN (test_params.cluster_throughput_mb_per_sec * percent) \div 100
    ELSE percent * test_params.num_producers

\* The first producer results generate_test_results can give on generator g;
\* none when there is no producer.
FirstProducerResults(test_params, g) ==
    IF test_params.num_producers < 1 THEN {EmptyResult}
    ELSE {RateResult(MockRate(test_params, MockRatios[i])) :
            i \in IF g.seeded
                  THEN {Rand(g.seed, g.pos + RatioCall, Len(MockRatios)) + 1}
                  ELSE 1..Len(MockRatios)}

\* Grids of two cells, with targets that the ratios scale to whole MB/sec
MockGrids ==
    {<< Dimension(ThroughputName, g[1]),
        Dimension("num_producers", g[2]),
        Dimension("consumer_groups", <<[num_groups |-> 1, size |-> 1]>>),
        Dimension("duration_sec", <<60>>),
        Dimension("record_size_byte", <<1024>>) >> :
       g \in {<< <<100, 200>>, <<1>> >>, << <<100>>, <<1, 2>> >>,
              << <<-1, 100>>, <<2>> >>}}

MockConditions ==
    {NoCondition,
     Comparison("less-than", <<Metric(MetricName), Literal(9, 10)>>),
     Comparison("greater-than", <<Metric(MetricName), Literal(1, 1)>>),
     Comparison("greater-than", <<Literal(1, 1), Metric("received_mb_per_sec")>>)}

Seeds == {42}

\* A fresh process; test_parameters has been imported (as by run_test.py) or not.
MockInit ==
    /\ test_specification \in Specifications(MockGrids, MockConditions)
    /\ event_keys = {}
    /\ current_test = NoTest
    /\ producer_result = EmptyResult
    /\ raised = "none"
    /\ branch = "new"
    /\ evaluated = FALSE
    /\ minted = FALSE
    /\ fed = FALSE
    /\ emitted = <<>>
    /\ test_count = 0
    /\ suite_pc = "idle"
    /\ returned = NoValue
    /\ rng = Entropy
    /\ imported \in BOOLEAN
    /\ all_results = <<>>
    /\ previous_results = NoResults

\* Lines 280-288: random.seed(seed) when a seed is given, then
\* "from test_parameters import ...", whose first execution in the process
\* runs the module's "random.seed()" (test_parameters.py:24); event = spec.copy().
MockCall ==
    /\ suite_pc = "idle"
    /\ raised = "none"
    /\ previous_results.calls < MaxCalls
    /\ \E seed \in Seeds \cup {NoSeed} :
          /\ rng' = IF ~imported THEN Entropy
                    ELSE IF seed # NoSeed THEN Seeded(seed)
                    ELSE rng
          /\ previous_results' = [previous_results EXCEPT !.seed = seed]
    /\ imported' = TRUE
    /\ event_keys' = {}
    /\ current_test' = NoTest
    /\ producer_result' = EmptyResult
    /\ all_results' = <<>>
    /\ test_count' = 0
    /\ suite_pc' = "mock"
    /\ emitted' = <<>>
    /\ UNCHANGED <<test_specification, raised, branch, evaluated, minted, fed, returned>>

\* One pass through the body of "while test_count < max_tests" (lines 290-311).
\* The answer of _evaluate_skip_condition_mock only chooses between
\* "continue" and the end of the body, which are the same place.
MockIteration ==
    /\ suite_pc = "mock"
    /\ test_count < max_tests
    /\ \E o \in StepOn(Event, rng) :
          IF o.r.err # "none"
          THEN /\ Answer(o.r, emitted)
               /\ rng' = o.rng
               /\ suite_pc' = "crashed"
               /\ UNCHANGED <<test_count, all_results>>
          ELSE IF "all_tests_completed" \in o.r.event.keys
          THEN /\ Answer(o.r, emitted)
               /\ rng' = o.rng
               /\ suite_pc' = "done"
               /\ UNCHANGED <<test_count, all_results>>
          ELSE LET test_params == o.r.event.current_test.parameters
               IN  \E first_result \in FirstProducerResults(test_params, o.rng) :
                      /\ IF /\ test_specification.skip_remaining_throughput.type # "none"
                            /\ first_result.keys # {}
                         THEN Answer([o.r EXCEPT
                                         !.event.keys = @ \cup {"producer_result"},
                                         !.event.producer_result = first_result],
                                     emitted)
                         ELSE Answer(o.r, emitted)
                      /\ rng' = Advance(o.rng, MockCalls(test_params))
                      /\ all_results' = Append(all_results,
                                               [test_params |-> test_params,
                                                index |-> o.r.event.current_test.index,
                                                mbPerSecSum |-> first_result.mbPerSecSum])
                      /\ test_count' = test_count + 1
                      /\ suite_pc' = "mock"
    /\ UNCHANGED <<returned, imported, previous_results>>

\* The loop ends, by the break or by its condition: "return all_results".
MockReturn ==
    /\ \/ suite_pc = "done"
       \/ suite_pc = "mock" /\ test_count >= max_tests
    /\ suite_pc' = "idle"
    /\ previous_results' =
          [calls |-> previous_results.calls + 1,
           seed |-> previous_results.seed,
           last_seed |-> previous_results.seed,
           last |-> all_results,
           before_seed |-> previous_results.last_seed,
           before |-> previous_results.last]
    /\ UNCHANGED <<test_specification, event_keys, current_test, producer_result,
                   raised, branch, evaluated, minted, fed, emitted, test_count,
                   returned, rng, imported, all_results>>

MockNext == MockCall \/ MockIteration \/ MockReturn

MockSpec == MockInit /\ [][MockNext]_vars

-----------------------------------------------------------------------------
(* run_test_suite with the test it runs spelled out producer by producer:   *)
(* run_test in real mode (lines 611-620, each result parsed from the        *)
(* producer's own output) and in debug mode (generate_test_results).        *)
(* suite_pc is "real" or "debug" while the loop runs.                       *)

\* The MB/sec a producer of the test can achieve: its share of the target
\* (of 100 MB/sec when uncapped) scaled by one of the ratios.
AchievableRates(test_params) ==
    LET share == IF test_params.cluster_throughput_mb_per_sec > 0
                 THEN test_params.cluster_throughput_mb_per_sec \div test_params.num_producers
                 ELSE 100
    IN  {(share * MockRatios[i]) \div 100 : i \in 1..Len(MockRatios)}

\* results['producer_results'] when the producers achieved the given rates:
\* _parse_producer_output stores the MB/sec of the producer's output line as
\* mbPerSecSum (run_test.py:480-484), generate_producer_result stores
\* actual_mb_per_sec * num_producers (mock_data_generator.py:111-119).
ProducerResultsFor(test_params, achieved, debug_mode) ==
    [i \in 1..test_params.num_producers |->
        [achieved_mb_per_sec |-> achieved[i],
         mbPerSecSum |-> IF debug_mode THEN achieved[i] * test_params.num_producers
                         ELSE achieved[i]]]

\* Targets of which one and two producers take whole shares
RunGrids ==
    {<< Dimension(ThroughputName, throughputs),
        Dimension("num_producers", <<1, 2>>),
        Dimension("consumer_groups", <<[num_groups |-> 1, size |-> 1]>>),
        Dimension("duration_sec", <<60>>),
        Dimension("record_size_byte", <<1024>>) >> :
       throughputs \in {<<100>>, <<100, 200>>, <<-1>>}}

RunConditions ==
    {NoCondition, Comparison("less-than", <<Metric(MetricName), Literal(9, 10)>>)}

RunInit ==
    /\ test_specification \in Specifications(RunGrids, RunConditions)
    /\ event_keys = {}
    /\ current_test = NoTest
    /\ producer_result = EmptyResult
    /\ raised = "none"
    /\ branch = "new"
    /\ evaluated = FALSE
    /\ minted = FALSE
    /\ fed = FALSE
    /\ emitted = <<>>
    /\ test_count = 0
    /\ suite_pc \in {"real", "debug"}
    /\ returned = NoValue
    /\ rng = Entropy
    /\ imported = TRUE
    /\ all_results = <<>>
    /\ previous_results = NoResults

\* The loop condition of "while test_count < max_tests" and, when it holds,
\* one pass through the body (lines 697-727), every producer of the test
\* achieving one of the achievable rates; "return all_results" otherwise.
RunLoop ==
    /\ suite_pc \in {"real", "debug"}
    /\ IF test_count >= max_tests
       THEN /\ suite_pc' = "returned"
            /\ UNCHANGED <<test_specification, event_keys, current_test, producer_result,
                           raised, branch, evaluated, minted, fed, emitted, test_count,
                           all_results>>
       ELSE \E series_rnd \in RandomIds, test_rnd \in RandomIds :
          \E r \in {increment_index_and_update_parameters(Event, series_rnd, test_rnd)} :
             IF r.err # "none"
             THEN /\ Answer(r, emitted)
                  /\ suite_pc' = "crashed"
                  /\ UNCHANGED <<test_count, all_results>>
             ELSE IF "all_tests_completed" \in r.event.keys
             THEN /\ Answer(r, emitted)
                  /\ suite_pc' = "returned"
                  /\ UNCHANGED <<test_count, all_results>>
             ELSE LET test_params == r.event.current_test.parameters
                  IN  \E achieved \in [1..test_params.num_producers ->
                                           AchievableRates(test_params)] :
                         LET producer_results ==
                                 ProducerResultsFor(test_params, achieved, suite_pc = "debug")
                             after == AfterTest(r, RateResult(producer_results[1].mbPerSecSum))
                         IN  /\ Answer(after, emitted)
                             /\ test_count' = test_count + 1
                             /\ all_results' =
                                    Append(all_results,
                                           [index |-> r.event.current_test.index,
                                            producer_results |-> producer_results])
                             /\ suite_pc' = IF after.err = "none" THEN suite_pc ELSE "crashed"
    /\ UNCHANGED <<returned, rng, imported, previous_results>>

RunNext == RunLoop

RunSpec == RunInit /\ [][RunNext]_vars

-----------------------------------------------------------------------------
(* Vocabulary of the properties: the grid as a mixed-radix number system,  *)
(* stated apart from the code's recursion.                                  *)

Parameters == test_specification.parameters

Condition == test_specification.skip_remaining_throughput

NumPositions == Len(Parameters)

SizeAt(pos) == Len(Parameters[pos + 1].cands)

Digit(index, pos) == index[Parameters[pos + 1].name]

\* The number the digits at positions pos.. spell, position pos least significant
RECURSIVE RankFrom(_, _)
RankFrom(index, pos) ==
    IF pos >= NumPositions THEN 0
    ELSE Digit(index, pos) + SizeAt(pos) * RankFrom(index, pos + 1)

RECURSIVE CellsFrom(_)
CellsFrom(pos) == IF pos >= NumPositions THEN 1 ELSE SizeAt(pos) * CellsFrom(pos + 1)

Rank(index) == RankFrom(index, 0)

Cells == CellsFrom(0)

ThroughputPosition ==
    CHOOSE pos \in 0..(NumPositions - 1) : Parameters[pos + 1].name = ThroughputName

ZeroIndex == [name \in KeySet(Parameters) |-> 0]

HasTest == "current_test" \in event_keys

Completed == "all_tests_completed" \in event_keys

\* The event carries feedback the step reads: a non-empty producer_result
FeedbackPresent == "producer_result" \in event_keys /\ producer_result.keys # {}

\* A transition that is a call of increment_index_and_update_parameters:
\* its answer holds no producer_result, or it raised.
StepTaken == ("producer_result" \notin event_keys') \/ (raised' # "none")

\* The condition is evaluated for the attached feedback and is truthy / falsy.
EvaluatesTruthy ==
    /\ Truthy(Condition) /\ FeedbackPresent
    /\ LET e == evaluate_skip_condition(Condition, Event)
       IN  e.err = "none" /\ TruthyValue(e.val)

EvaluatesFalsy ==
    /\ Truthy(Condition) /\ FeedbackPresent
    /\ LET e == evaluate_skip_condition(Condition, Event)
       IN  e.err = "none" /\ ~TruthyValue(e.val)

\* Skip is disabled in this sweep: no usable expression, or no feedback was ever supplied.
SkipDisabled == ~Truthy(Condition) \/ ~fed

Distinct(seq) == \A i, j \in 1..Len(seq) : i # j => seq[i] # seq[j]

IsSizes(sizes) == \A pos \in 0..(NumPositions - 1) : SizeAt(pos) = sizes[pos + 1]

-----------------------------------------------------------------------------
\* C1: a sweep with skip disabled (no skip expression, or no feedback ever
\* supplied) never emits an Index twice, never emits more than n1*...*nk
\* tests, and when it reports completion it has emitted exactly n1*...*nk.
C1_GridSize ==
    SkipDisabled =>
        /\ Distinct(emitted)
        /\ Len(emitted) <= Cells
        /\ (branch = "completed" => Len(emitted) = Cells)

\* A sweep over the 2 x 2 x 2 grid, a skip expression configured but no
\* feedback supplied, has completed.
C1_Witness ==
    /\ branch = "completed" /\ Truthy(Condition) /\ ~fed
    /\ IsSizes(<<2, 2, 2, 1, 1>>) /\ Len(emitted) = 8

\* C2: with skip disabled the first Index is all zeros and each later Index
\* is the mixed-radix successor of the one before it, the first dimension
\* least significant; on the 3 x 2 grid the indexes of the first two
\* dimensions run (0,0),(1,0),(2,0),(0,1),(1,1),(2,1) and then the sweep completes.
C2_OdometerOrder ==
    SkipDisabled =>
        /\ \A i \in 1..Len(emitted) : Rank(emitted[i]) = i - 1
        /\ (emitted # <<>> => emitted[1] = ZeroIndex)
        /\ (IsSizes(<<3, 2, 1, 1, 1>>) /\ branch = "completed" =>
               [i \in 1..Len(emitted) |-> <<Digit(emitted[i], 0), Digit(emitted[i], 1)>>]
                   = << <<0, 0>>, <<1, 0>>, <<2, 0>>, <<0, 1>>, <<1, 1>>, <<2, 1>> >>)

\* The 3 x 2 grid, throughput not among the first two dimensions, swept to completion.
C2_Witness ==
    /\ branch = "completed" /\ SkipDisabled /\ IsSizes(<<3, 2, 1, 1, 1>>)
    /\ ThroughputPosition >= 2 /\ Len(emitted) = 6

\* The Index a bulk skip leads to from index: zeros up to the throughput
\* position, the positions above it advanced by one.
IsSkipTarget(index, next) ==
    /\ \A pos \in 0..ThroughputPosition : Digit(next, pos) = 0
    /\ RankFrom(next, ThroughputPosition + 1) = RankFrom(index, ThroughputPosition + 1) + 1
    /\ \A pos \in 0..(NumPositions - 1) : Digit(next, pos) < SizeAt(pos)

LastAbove(index) ==
    RankFrom(index, ThroughputPosition + 1) = CellsFrom(ThroughputPosition + 1) - 1

\* The example: grid {throughput:[10,50,100], producers:[1,2]} under
\* less-than(sent_div_requested_mb_per_sec, 0.9), at (10, 1) with ratio 0.5.
SkipExample ==
    /\ IsSizes(<<3, 2, 1, 1, 1>>) /\ ThroughputPosition = 0
    /\ Condition = Comparison("less-than", <<Metric(MetricName), Literal(9, 10)>>)
    /\ HasTest
    /\ current_test.parameters.cluster_throughput_mb_per_sec = 10
    /\ current_test.parameters.num_producers = 1
    /\ "producer_result" \in event_keys /\ producer_result = RateResult(5)

\* C3: a step on a current test whose skip expression evaluates truthy for
\* the attached feedback leads to the Index with every dimension up to the
\* throughput position at 0 and the dimensions above advanced by one
\* increment, or to completion when that increment carries past the last
\* dimension; in the example the next test is (throughput=10, producers=2).
C3_SkipAhead ==
    [][ (HasTest /\ raised = "none" /\ EvaluatesTruthy) =>
            /\ raised' = "none"
            /\ IF LastAbove(current_test.index)
               THEN "all_tests_completed" \in event_keys'
               ELSE /\ "current_test" \in event_keys'
                    /\ IsSkipTarget(current_test.index, current_test'.index)
            /\ (SkipExample =>
                    /\ current_test'.parameters.cluster_throughput_mb_per_sec = 10
                    /\ current_test'.parameters.num_producers = 2) ]_vars

\* The example's skip has happened: (10, 1) was followed by (10, 2).
C3_Witness ==
    /\ branch = "skip" /\ IsSizes(<<3, 2, 1, 1, 1>>) /\ ThroughputPosition = 0
    /\ Len(emitted) = 2
    /\ current_test.parameters.cluster_throughput_mb_per_sec = 10
    /\ current_test.parameters.num_producers = 2

\* C4: a step on a current test with no skip expression configured, or with
\* one that evaluates falsy for the attached feedback, leads to the
\* mixed-radix successor of the current Index (completion after the last).
C4_NormalIncrement ==
    [][ (HasTest /\ raised = "none" /\ StepTaken
            /\ (Condition.type = "none" \/ EvaluatesFalsy)) =>
            /\ raised' = "none"
            /\ IF Rank(current_test.index) = Cells - 1
               THEN "all_tests_completed" \in event_keys'
               ELSE /\ "current_test" \in event_keys'
                    /\ Rank(current_test'.index) = Rank(current_test.index) + 1
                    /\ \A pos \in 0..(NumPositions - 1) :
                          Digit(current_test'.index, pos) < SizeAt(pos) ]_vars

\* A step evaluated a configured expression, found it falsy and carried
\* from the first dimension into the second.
C4_Witness ==
    /\ branch = "increment" /\ evaluated /\ Condition.type = "dict"
    /\ Len(emitted) >= 2 /\ SizeAt(0) > 1
    /\ Digit(current_test.index, 0) = 0 /\ Digit(current_test.index, 1) = 1

\* C5: the first step of a session (no current test in the event) sets the
\* Index to 0 for every dimension and evaluates nothing, so it cannot fail,
\* whatever condition is configured and whatever feedback is attached.
C5_FirstStep ==
    [][ (~HasTest /\ raised = "none" /\ StepTaken) =>
            /\ raised' = "none"
            /\ ~evaluated'
            /\ "current_test" \in event_keys'
            /\ DOMAIN current_test'.index = KeySet(Parameters)
            /\ \A name \in KeySet(Parameters) : current_test'.index[name] = 0 ]_vars

\* A first step was taken with feedback attached under a condition no
\* evaluation accepts.
C5_Witness ==
    /\ branch = "first" /\ fed /\ Condition.key = "equals" /\ raised = "none"

\* C6: a step that returns reports completion, with nothing but the
\* specification and the flag in the event, exactly when the increment it
\* performs carries past the most-significant dimension: from the last cell
\* for a normal increment, from the last outer configuration for a bulk
\* skip; every other returning step emits a test and no completion.
C6_Completion ==
    [][ (raised = "none" /\ StepTaken /\ raised' = "none") =>
            LET exhausted == /\ HasTest
                             /\ IF EvaluatesTruthy THEN LastAbove(current_test.index)
                                ELSE Rank(current_test.index) = Cells - 1
            IN  IF exhausted
                THEN event_keys' = {"all_tests_completed"}
                ELSE event_keys' = {"current_test"} ]_vars

\* A sweep completed by a bulk skip, away from the grid's last cell.
C6_Witness ==
    /\ branch = "completed" /\ event_keys = {"all_tests_completed"}
    /\ emitted # <<>> /\ Rank(emitted[Len(emitted)]) < Cells - 1

\* C7: a step on a session that has reported completion fails with an error.
C7_StepAfterCompletionFails ==
    [][ (Completed /\ raised = "none" /\ StepTaken) => raised' # "none" ]_vars

\* C8: run_test_suite returns without completion only through a fatal
\* SweepDidNotTerminate outcome: a sweep cut off by the iteration cap is
\* reported, never handed back as an ordinary result list.
C8_CapIsFatal ==
    (suite_pc = "returned" /\ ~Completed) => raised = "SweepDidNotTerminate"

\* The digits above the throughput position
Above(index) == [pos \in (ThroughputPosition + 1)..(NumPositions - 1) |-> Digit(index, pos)]

\* A normal increment from index carries through the throughput position.
ThroughputRollsOver(index) ==
    \A pos \in 0..ThroughputPosition : Digit(index, pos) = SizeAt(pos) - 1

SeriesId(test) == test.parameters.throughput_series_id

\* A step that led from one test to the next
NextTest ==
    /\ HasTest /\ raised = "none" /\ StepTaken
    /\ raised' = "none" /\ "current_test" \in event_keys'

\* The tests emitted under one outer configuration follow one another.
OuterRunsContiguous ==
    \A i, j \in 1..Len(emitted) :
        (i < j /\ Above(emitted[i]) = Above(emitted[j])) =>
            \A k \in i..j : Above(emitted[k]) = Above(emitted[i])

\* C9: a step that neither rolls the throughput dimension over nor skips
\* keeps the series id; the tests of one outer (above-throughput)
\* configuration follow one another in the sweep, and a step that stays in
\* the outer configuration keeps the series id, so they all carry one id.
C9_SeriesIdStable ==
    /\ []OuterRunsContiguous
    /\ [][ NextTest =>
             /\ (~EvaluatesTruthy /\ ~ThroughputRollsOver(current_test.index)
                    => SeriesId(current_test') = SeriesId(current_test))
             /\ (Above(current_test'.index) = Above(current_test.index)
                    => SeriesId(current_test') = SeriesId(current_test)) ]_vars

\* A third test in a row under one outer configuration, its series id carried over.
C9_Witness ==
    /\ branch = "increment" /\ ~minted /\ Len(emitted) >= 3
    /\ Above(emitted[Len(emitted)]) = Above(emitted[Len(emitted) - 2])
    /\ ThroughputPosition > 0 /\ Digit(current_test.index, ThroughputPosition) > 0

\* A step resets the throughput dimension: by a bulk skip or by a rollover.
ResetsThroughput == EvaluatesTruthy \/ ThroughputRollsOver(current_test.index)

\* C10 as claimed: a step that resets the throughput dimension gives the
\* new test a series id different from the previous test's.
C10_SeriesIdDiffers ==
    [][ (NextTest /\ ResetsThroughput) =>
            SeriesId(current_test') # SeriesId(current_test) ]_vars

\* C10 amended: a step that resets the throughput dimension, by rollover or
\* by bulk skip, gives the new test a series id drawn anew by
\* random.randint(0, 100000), not the carried one; the draw may come out
\* equal to the previous id.
C10_SeriesIdDrawn ==
    [][ (NextTest /\ ResetsThroughput) =>
            /\ minted'
            /\ SeriesId(current_test') \in RandomIds ]_vars

\* A bulk skip has led to a new test, its series id drawn by the skip.
C10_Witness ==
    /\ branch = "skip" /\ minted /\ Len(emitted) >= 2 /\ HasTest

-----------------------------------------------------------------------------
\* The throughput target of the test an emitted index selects
ThroughputAt(index) == CandidatesOf(Parameters, ThroughputName)[index[ThroughputName] + 1]

\* The current test runs in uncapped mode: its requested throughput is 0 or negative.
Uncapped == HasTest /\ current_test.parameters.cluster_throughput_mb_per_sec <= 0

\* The event with a feedback record attached, and with none
WithFeedback(result) ==
    [Event EXCEPT !.keys = @ \cup {"producer_result"}, !.producer_result = result]

WithoutFeedback ==
    [Event EXCEPT !.keys = @ \ {"producer_result"}, !.producer_result = EmptyResult]

\* Thresholds up to 1
Thresholds == {Literal(1, 1), Literal(9, 10), Literal(0, 1), Literal(-1, 1)}

\* condition is less-than(sent_div_requested_mb_per_sec, t) for a literal t <= 1
IsLessThanThreshold(condition) ==
    /\ condition.type = "dict" /\ condition.key = "less-than"
    /\ Len(condition.args) = 2
    /\ condition.args[1] = Metric(MetricName)
    /\ condition.args[2].type = "num"
    /\ condition.args[2].num.n <= condition.args[2].num.d

\* C11: while the current test's requested throughput is 0 or negative, the
\* metric sent_div_requested_mb_per_sec evaluates to exactly 1 for every
\* feedback record (rate present, zero, missing, record empty or absent),
\* less-than(metric, t) is false for every threshold t <= 1, and a step
\* under such an expression never takes the bulk skip.
C11_UncappedRatio ==
    /\ [](Uncapped =>
            \A event \in {WithFeedback(result) : result \in ProducerResults \cup {RateResult(0)}}
                            \cup {WithoutFeedback} :
                /\ evaluate_skip_condition(Metric(MetricName), event) = Value(Num(1, 1))
                /\ \A t \in Thresholds :
                      evaluate_skip_condition(
                          Comparison("less-than", <<Metric(MetricName), t>>), event)
                          = Value(Bool(FALSE)))
    /\ [][ (Uncapped /\ raised = "none" /\ StepTaken /\ IsLessThanThreshold(Condition)) =>
             branch' # "skip" ]_vars

\* An uncapped test was followed, feedback attached and the less-than
\* expression evaluated, by a normal increment.
C11_Witness ==
    /\ branch = "increment" /\ evaluated /\ IsLessThanThreshold(Condition)
    /\ Len(emitted) >= 2 /\ ThroughputAt(emitted[Len(emitted) - 1]) <= 0

-----------------------------------------------------------------------------
\* The shapes the specification's grammar admits: a numeric literal, the
\* known metric name, one less-than / greater-than key over exactly two
\* admitted sub-expressions.
RECURSIVE WellFormed(_)
WellFormed(condition) ==
    CASE condition.type = "num" -> TRUE
      [] condition.type = "str" -> condition.key = MetricName
      [] condition.type = "dict" ->
            /\ condition.key \in {"less-than", "greater-than"}
            /\ Len(condition.args) = 2
            /\ WellFormed(condition.args[1])
            /\ WellFormed(condition.args[2])
      [] OTHER -> FALSE

\* An expression is configured and its shape is not admitted.
Malformed(condition) == condition.type # "none" /\ ~WellFormed(condition)

\* C12: a step on an in-progress session whose configured skip expression
\* is malformed fails with an error; it never answers with a next test or
\* with completion as if the expression were false.
C12_MalformedFails ==
    [][ (HasTest /\ raised = "none" /\ StepTaken /\ Malformed(Condition)) =>
            raised' # "none" ]_vars

-----------------------------------------------------------------------------
\* Comparison of two numbers n/d, stated apart from the code
Below(x, y) == x.n * y.d < y.n * x.d

SameNumber(x, y) == x.n * y.d = y.n * x.d

Opposite(key) == IF key = "less-than" THEN "greater-than" ELSE "less-than"

\* C13: for a well-formed expression evaluate_skip_condition raises
\* nothing; a numeric literal comes back as itself; less-than(A, B) is true
\* exactly when A's value is below B's and greater-than(A, B) exactly when
\* B's is below A's, so both are false for equal operands; and
\* less-than(A, B) returns what greater-than(B, A) returns.
C13_StrictComparison ==
    (suite_pc = "called" /\ WellFormed(Condition)) =>
        /\ returned.err = "none"
        /\ (Condition.type = "num" => returned.val = Condition.num)
        /\ (Condition.type = "dict" =>
               LET a == evaluate_skip_condition(Condition.args[1], Event).val
                   b == evaluate_skip_condition(Condition.args[2], Event).val
                   flipped == Comparison(Opposite(Condition.key),
                                         <<Condition.args[2], Condition.args[1]>>)
               IN  /\ returned.val \in {Bool(TRUE), Bool(FALSE)}
                   /\ (Condition.key = "less-than" =>
                          (returned.val = Bool(TRUE)) = Below(a, b))
                   /\ (Condition.key = "greater-than" =>
                          (returned.val = Bool(TRUE)) = Below(b, a))
                   /\ (SameNumber(a, b) => returned.val = Bool(FALSE))
                   /\ evaluate_skip_condition(flipped, Event) = returned)

\* greater-than(metric, 2) was evaluated for 100 MB/sec achieved of 50
\* requested: equal operands, the answer false.
C13_Witness ==
    /\ suite_pc = "called"
    /\ Condition = Comparison("greater-than", <<Metric(MetricName), Literal(2, 1)>>)
    /\ current_test.parameters.cluster_throughput_mb_per_sec = 50
    /\ "producer_result" \in event_keys /\ producer_result = RateResult(100)
    /\ returned = Value(Bool(FALSE))

-----------------------------------------------------------------------------
\* The materialized parameters of the current test
Test == current_test.parameters

Capped == HasTest /\ Test.cluster_throughput_mb_per_sec > 0

\* The candidate the current Index selects for a dimension
Selected(name) == CandidatesOf(Parameters, name)[current_test.index[name] + 1]

\* C14: for every materialized test with throughput target > 0,
\* producer_throughput is throughput * 2^20 divided by num_producers and
\* num_records_producer is producer_throughput * duration_sec divided by
\* record_size_byte, both quotients rounded down; throughput 120, 4
\* producers, records of 1024 bytes and 60 seconds give 31457280 and
\* 1843200, and 7 MB/sec over 3 producers, 1000 bytes, 90 seconds give
\* 2446677 and 220200.
C14_ProducerRate ==
    Capped =>
        /\ Test.producer_throughput
               = (Test.cluster_throughput_mb_per_sec * 1048576) \div Test.num_producers
        /\ Test.num_records_producer
               = MulDiv(Test.producer_throughput, Test.duration_sec, Test.record_size_byte)
        /\ (/\ Test.cluster_throughput_mb_per_sec = 120 /\ Test.num_producers = 4
            /\ Test.record_size_byte = 1024 /\ Test.duration_sec = 60
            => /\ Test.producer_throughput = 31457280
               /\ Test.num_records_producer = 1843200)
        /\ (/\ Test.cluster_throughput_mb_per_sec = 7 /\ Test.num_producers = 3
            /\ Test.record_size_byte = 1000 /\ Test.duration_sec = 90
            => /\ Test.producer_throughput = 2446677
               /\ Test.num_records_producer = 220200)

\* The example has been materialized.
C14_Witness ==
    /\ HasTest /\ Test.cluster_throughput_mb_per_sec = 120 /\ Test.num_producers = 4
    /\ Test.record_size_byte = 1024 /\ Test.duration_sec = 60
    /\ Test.producer_throughput = 31457280 /\ Test.num_records_producer = 1843200

\* C15: for every materialized test with throughput target <= 0,
\* producer_throughput and records_per_sec are -1 and num_records_producer
\* and num_records_consumer are 2147483647, whatever the producers, the
\* duration, the record size and the consumer groups.
C15_UncappedSentinels ==
    Uncapped =>
        /\ Test.producer_throughput = -1
        /\ Test.records_per_sec = -1
        /\ Test.num_records_producer = 2147483647
        /\ Test.num_records_consumer = 2147483647

\* A target of 0 was materialized for 3 producers and two groups of three.
C15_Witness ==
    /\ HasTest /\ Test.cluster_throughput_mb_per_sec = 0 /\ Test.num_producers = 3
    /\ Test.consumer_groups.size = 3 /\ Test.duration_sec = 90
    /\ Test.num_records_consumer = 2147483647

\* throughput * 2^20 divided by the size of one consumer group, rounded down
ConsumerRate == (Test.cluster_throughput_mb_per_sec * 1048576) \div Test.consumer_groups.size

\* C16 as claimed: for every materialized test with throughput target > 0
\* the consumer byte rate is the quotient by the group size (which a size
\* of 0 does not have) and num_records_consumer derives from it.
C16_ConsumerRateEverySize ==
    Capped =>
        /\ Test.consumer_groups.size # 0
        /\ Test.num_records_consumer
               = MulDiv(ConsumerRate, Test.duration_sec, Test.record_size_byte)

\* C16 amended: for every materialized test with throughput target > 0 and
\* a consumer group size > 0, num_records_consumer is the consumer byte
\* rate * duration_sec divided by record_size_byte, the byte rate being
\* throughput * 2^20 divided by the size of a single group (quotients
\* rounded down); with a group size of 0 the rate and the count are 0.
C16_ConsumerRate ==
    Capped =>
        IF Test.consumer_groups.size > 0
        THEN /\ Test.num_records_consumer
                   = MulDiv(ConsumerRate, Test.duration_sec, Test.record_size_byte)
             /\ (/\ Test.cluster_throughput_mb_per_sec = 7 /\ Test.consumer_groups.size = 3
                 /\ Test.record_size_byte = 1000 /\ Test.duration_sec = 90
                 => Test.num_records_consumer = 220200)
        ELSE Test.num_records_consumer = 0

\* 7 MB/sec were materialized for two groups of three consumers.
C16_Witness ==
    /\ HasTest /\ Test.cluster_throughput_mb_per_sec = 7
    /\ Test.consumer_groups = [num_groups |-> 2, size |-> 3]
    /\ Test.record_size_byte = 1000 /\ Test.duration_sec = 90
    /\ Test.num_records_consumer = 220200

\* C17: for every materialized test, capped or uncapped, num_jobs is
\* num_producers + num_groups * size of the candidates the Index selects.
C17_NumJobs ==
    HasTest =>
        /\ Test.num_producers = Selected("num_producers")
        /\ Test.consumer_groups = Selected("consumer_groups")
        /\ Test.num_jobs = Selected("num_producers")
               + Selected("consumer_groups").num_groups * Selected("consumer_groups").size

\* An uncapped test with 3 producers and two groups of three: 9 jobs.
C17_Witness ==
    /\ Uncapped /\ Test.num_producers = 3
    /\ Test.consumer_groups = [num_groups |-> 2, size |-> 3] /\ Test.num_jobs = 9

\* C18: the topic name of a test is the name its test id, series id and
\* Index give, and two tests of one grid with different Indexes, whatever
\* their ids, have different topic names, also in a grid with dimension
\* names that agree in their first 15 characters.
C18_TopicNames ==
    /\ [](HasTest =>
            Test.topic_name = topic_name(Keys(Parameters), current_test.index,
                                         Test.test_id, Test.throughput_series_id))
    /\ [][ (/\ HasTest /\ "current_test" \in event_keys'
            /\ test_specification' = test_specification
            /\ current_test'.index # current_test.index)
           => current_test'.parameters.topic_name # Test.topic_name ]_vars

\* A test of the grid with the look-alike names, the two of them at
\* different candidates.
C18_Witness ==
    /\ HasTest /\ Parameters = NameGrid
    /\ current_test.index["num_partitions_in"] = 1
    /\ current_test.index["num_partitions_out"] = 0

\* A transition that is a call of update_parameters_for_depletion
Depleting == suite_pc = "idle" /\ suite_pc' = "depleted"

\* C19: update_parameters_for_depletion, applied to a completed or an
\* in-progress session of a specification with a depletion configuration,
\* returns a test with the Index, test id and series id of the session's
\* current test, throughput -1 and duration approximate_timeout_hours *
\* 3600 for every candidate, the lengths of the candidate lists and the
\* other dimensions' values unchanged.
C19_DepletionAnySession ==
    [][ (/\ Depleting /\ (HasTest \/ Completed)
         /\ test_specification.depletion_configuration.present)
        => /\ raised' = "none"
           /\ "current_test" \in event_keys'
           /\ current_test'.index = current_test.index
           /\ current_test'.parameters.test_id = Test.test_id
           /\ current_test'.parameters.throughput_series_id = Test.throughput_series_id
           /\ current_test'.parameters.cluster_throughput_mb_per_sec = -1
           /\ current_test'.parameters.duration_sec
                  = test_specification.depletion_configuration.approximate_timeout_hours * 3600
           /\ current_test'.parameters.num_producers = Test.num_producers
           /\ current_test'.parameters.consumer_groups = Test.consumer_groups
           /\ current_test'.parameters.record_size_byte = Test.record_size_byte
           /\ \A q \in 1..Len(Parameters) :
                  /\ Len(test_specification'.parameters[q].cands) = Len(Parameters[q].cands)
                  /\ test_specification'.parameters[q].name = Parameters[q].name
                  /\ Parameters[q].name = "duration_sec" =>
                        \A i \in 1..Len(Parameters[q].cands) :
                            test_specification'.parameters[q].cands[i]
                                = test_specification.depletion_configuration.approximate_timeout_hours * 3600
                  /\ Parameters[q].name = ThroughputName =>
                        \A i \in 1..Len(Parameters[q].cands) :
                            test_specification'.parameters[q].cands[i] = -1
                  /\ Parameters[q].name \notin {"duration_sec", ThroughputName} =>
                        test_specification'.parameters[q] = Parameters[q] ]_vars

-----------------------------------------------------------------------------
\* The feedback records of a call's results, and what it emitted
FeedbackOf(results) == [i \in 1..Len(results) |-> results[i].mbPerSecSum]

EmittedBy(results) ==
    [i \in 1..Len(results) |->
        [index |-> results[i].index,
         test_id |-> results[i].test_params.test_id,
         throughput_series_id |-> results[i].test_params.throughput_series_id,
         topic_name |-> results[i].test_params.topic_name]]

\* C20: two sweeps over the same grid that were started with the same seed
\* and received the same feedback records have emitted the same Indexes,
\* test ids, series ids and topic names, and as many of them.
C20_SeededSweepsAgree ==
    (/\ suite_pc = "idle" /\ previous_results.calls >= 2
     /\ previous_results.last_seed # NoSeed
     /\ previous_results.last_seed = previous_results.before_seed
     /\ FeedbackOf(previous_results.last) = FeedbackOf(previous_results.before))
    => EmittedBy(previous_results.last) = EmittedBy(previous_results.before)

-----------------------------------------------------------------------------
\* C21: the test id is unique per test; in particular a step that leads from
\* one test to the next gives the new test a test id (and so a depletion
\* topic name) different from the one of the test before it.
C21_TestIdUnique ==
    [][ NextTest =>
            /\ current_test'.parameters.test_id # current_test.parameters.test_id
            /\ current_test'.parameters.depletion_topic_name
                   # current_test.parameters.depletion_topic_name ]_vars

-----------------------------------------------------------------------------
\* The grid cells that lie strictly between two indexes in odometer order
Between(index, next) ==
    {cell \in Indexes(Parameters) : Rank(index) < Rank(cell) /\ Rank(cell) < Rank(next)}

\* C22: every cell a bulk skip passes over (strictly between the triggering
\* test's Index and the next emitted Index in odometer order) has the
\* triggering test's values in all dimensions above the throughput dimension
\* and a larger throughput index than the triggering test, wherever the
\* throughput dimension stands in the grid.
C22_SkippedCellsSaturate ==
    [][ (NextTest /\ EvaluatesTruthy) =>
            \A cell \in Between(current_test.index, current_test'.index) :
                /\ Above(cell) = Above(current_test.index)
                /\ Digit(cell, ThroughputPosition) > Digit(current_test.index, ThroughputPosition) ]_vars

-----------------------------------------------------------------------------
\* The value the current test carries for a dimension
Materialized(name) ==
    IF name \in DOMAIN Test THEN Test[name] ELSE Test.others[name]

\* C23: in every in-progress session state, whatever normal increments and
\* bulk skips led to it, the Index has exactly one entry per grid dimension,
\* each entry is an integer from 0 to the number of the dimension's
\* candidates less one, and the value materialized for each dimension is the
\* candidate at that entry.
C23_IndexInRange ==
    HasTest =>
        /\ DOMAIN current_test.index = KeySet(Parameters)
        /\ \A name \in KeySet(Parameters) :
              /\ current_test.index[name] \in 0..(Len(CandidatesOf(Parameters, name)) - 1)
              /\ Materialized(name) = Selected(name)

\* A test reached through a normal increment and then a bulk skip, two of
\* its dimensions away from their first candidate.
C23_Witness ==
    /\ HasTest /\ branch = "skip" /\ Len(emitted) >= 3
    /\ \E p, q \in 0..(NumPositions - 1) :
          /\ p # q
          /\ Digit(current_test.index, p) > 0
          /\ Digit(current_test.index, q) > 0

-----------------------------------------------------------------------------
\* The caller attaches a feedback record to the session.
Attaches == "producer_result" \notin event_keys /\ "producer_result" \in event_keys'

\* The session rebuilt from the grid, the current Index and the attached
\* feedback alone: the ids, which differ from sweep to sweep, set to 0.
Rebuilt ==
    MakeEvent(test_specification, event_keys,
              update_parameters(test_specification, Some(current_test.index), 0, 0).current_test,
              producer_result)

\* What a step decides: whether it fails, what the session then holds and the next Index
Decision(r) == <<r.err, r.event.keys, r.event.current_test.index, r.branch>>

\* C24: the session a step returns holds no feedback record, and what a step
\* decides is what it decides for the session rebuilt from the grid, the
\* current Index and the feedback attached for this step, so that feedback
\* attached for an earlier step has no part in it.
C24_FeedbackNotRetained ==
    /\ [][ (~Attaches /\ raised' = "none") =>
              /\ "producer_result" \notin event_keys'
              /\ producer_result' = EmptyResult ]_vars
    /\ [](HasTest /\ raised = "none" =>
              \A series_rnd, test_rnd \in RandomIds :
                  Decision(increment_index_and_update_parameters(Event, series_rnd, test_rnd))
                      = Decision(increment_index_and_update_parameters(Rebuilt, series_rnd, test_rnd)))

\* A third test, reached by a step that evaluated the feedback attached for
\* it, after an earlier step of the sweep evaluated a bulk skip: the session
\* holds no feedback record.
C24_Witness ==
    /\ HasTest /\ branch = "increment" /\ evaluated /\ Len(emitted) >= 3
    /\ \E i \in 1..(Len(emitted) - 1) : Rank(emitted[i + 1]) > Rank(emitted[i]) + 1
    /\ "producer_result" \notin event_keys

-----------------------------------------------------------------------------
\* C25: the grid definition never changes during a session: every step
\* (first step, normal increment, bulk skip, completion) returns a session
\* with the test_specification it was given, and the depletion transform
\* leaves the session passed to it, and that session's grid, as they were.
C25_GridImmutable ==
    [][ /\ test_specification' = test_specification
        /\ (branch # "depletion" /\ branch' = "depletion" =>
               UNCHANGED <<event_keys, current_test, producer_result>>) ]_vars

\* The depletion variant was computed for a test that a normal increment
\* and a bulk skip led to, with the throughput dimension second in the grid.
C25_Witness ==
    /\ branch = "depletion" /\ raised = "none" /\ HasTest /\ ThroughputPosition = 1
    /\ Len(emitted) >= 3
    /\ \E i \in 1..(Len(emitted) - 1) : Rank(emitted[i + 1]) > Rank(emitted[i]) + 1

-----------------------------------------------------------------------------
\* The expression refers to a metric name other than sent_div_requested_mb_per_sec.
RECURSIVE UnknownMetric(_)
UnknownMetric(condition) ==
    CASE condition.type = "str" -> condition.key # MetricName
      [] condition.type \in {"dict", "list"} ->
            \E i \in 1..Len(condition.args) : UnknownMetric(condition.args[i])
      [] OTHER -> FALSE

\* C26: a session built from a specification whose skip expression refers
\* to an unknown metric name is invalid input: no test configuration is ever
\* emitted for it and no completion is reported.
C26_InvalidInputEmitsNothing ==
    UnknownMetric(Condition) => (~HasTest /\ ~Completed /\ emitted = <<>>)

-----------------------------------------------------------------------------
\* The check after the test (run_test.py:726) found the skip condition met
\* for the result it attached, and logged that the remaining throughput
\* values are skipped.
SkipLogged ==
    /\ suite_pc = "loop" /\ HasTest /\ raised = "none"
    /\ "producer_result" \in event_keys
    /\ LET e == evaluate_skip_condition(Condition, Event)
       IN  e.err = "none" /\ TruthyValue(e.val)

\* C27: in run_test_suite, whenever the check after a test found the skip
\* condition met and logged the skip, the following call of
\* increment_index_and_update_parameters performs a bulk skip, whatever the
\* test's outcome, a test without any producer result included.
C27_LoggedSkipIsPerformed ==
    [][ SkipLogged =>
            /\ evaluated'
            /\ branch' \in {"skip", "completed"} ]_vars

-----------------------------------------------------------------------------
\* The sum of the MB/sec the producers of a test achieved
RECURSIVE SumAchieved(_)
SumAchieved(producer_results) ==
    IF producer_results = <<>> THEN 0
    ELSE Head(producer_results).achieved_mb_per_sec + SumAchieved(Tail(producer_results))

\* The results of the test the suite ran last
LastResults == all_results[Len(all_results)]

\* C28: the mbPerSecSum of the feedback record the runner attaches after a
\* test is the aggregate rate of that test, the sum of the MB/sec achieved
\* by all of its producers, in real mode and in debug mode, for every
\* number of producers.
C28_FeedbackIsAggregate ==
    (suite_pc \in {"real", "debug"} /\ "producer_result" \in event_keys) =>
        producer_result.mbPerSecSum = SumAchieved(LastResults.producer_results)

-----------------------------------------------------------------------------
\* The decimal digits of a natural number, as characters
RECURSIVE Decimal(_)
Decimal(n) ==
    LET digit == <<"0", "1", "2", "3", "4", "5", "6", "7", "8", "9">>[(n % 10) + 1]
    IN  IF n < 10 THEN <<digit>> ELSE Append(Decimal(n \div 10), digit)

\* The dimension's name, invalid characters replaced by '-', cut to 15 characters
SegmentName(name) == Take([i \in 1..Len(Chars(name)) |->
                              IF Chars(name)[i] \in ValidChars THEN Chars(name)[i] ELSE "-"], 15)

\* The characters of the segment a dimension contributes for an index entry
Segment(name, entry) == SegmentName(name) \o <<"-">> \o Decimal(entry)

\* The topic name of the current test is made of these segments.
MadeOfSegments ==
    Test.topic_name =
        "test-id-" \o ToString(Test.test_id) \o "--throughput-series-id-"
            \o ToString(Test.throughput_series_id) \o "--"
            \o Join([p \in 1..NumPositions |->
                       Str(Segment(Parameters[p].name,
                                   current_test.index[Parameters[p].name]))])

\* C29 as claimed: in every topic name the segment of each dimension holds
\* only ASCII letters, digits and '-' and is at most 15 characters long.
C29_SegmentAtMost15 ==
    (HasTest /\ branch = "materialized") =>
        /\ MadeOfSegments
        /\ \A name \in KeySet(Parameters) :
              LET segment == Segment(name, current_test.index[name])
              IN  /\ \A i \in 1..Len(segment) : segment[i] \in ValidChars
                  /\ Len(segment) <= 15

\* C29 amended: in every topic name the segment of each dimension is the
\* dimension's name, sanitized and cut to 15 characters, then '-' and the
\* decimal index entry of the dimension (not the candidate value); it holds
\* only ASCII letters, digits and '-', and is at most 15 characters long
\* apart from the '-' and the digits of the entry.
C29_SegmentShape ==
    (HasTest /\ branch = "materialized") =>
        /\ MadeOfSegments
        /\ \A name \in KeySet(Parameters) :
              LET entry == current_test.index[name]
                  segment == Segment(name, entry)
              IN  /\ \A i \in 1..Len(segment) : segment[i] \in ValidChars
                  /\ Str(Decimal(entry)) = ToString(entry)
                  /\ Len(SegmentName(name)) <= 15
                  /\ Len(segment) = Len(SegmentName(name)) + 1 + Len(Decimal(entry))

\* A test of the grid with the long and the invalid names, the dimension
\* whose name holds a space at its second candidate.
C29_Witness ==
    /\ HasTest /\ branch = "materialized"
    /\ "client props" \in KeySet(Parameters)
    /\ current_test.index["client props"] = 1
    /\ Len(Segment("num_partitions_out", current_test.index["num_partitions_out"])) = 17

-----------------------------------------------------------------------------
\* The emitted indexes climb in odometer order.
Climbing == \A i \in 1..(Len(emitted) - 1) : Rank(emitted[i]) < Rank(emitted[i + 1])

\* C30: whatever feedback records are supplied, so under any mix of normal
\* increments and bulk skips, each emitted Index is strictly greater in
\* odometer order than the one emitted before it and lies in the grid; so
\* no Index is emitted twice, at most n1*...*nk tests are emitted, and
\* every step that returns either emits such a greater Index or reports
\* completion, which leaves a sweep no way of going on for ever.
C30_SweepTerminates ==
    /\ [](Climbing /\ Distinct(emitted) /\ Len(emitted) <= Cells)
    /\ [](HasTest => Rank(current_test.index) \in 0..(Cells - 1))
    /\ [][ (HasTest /\ raised = "none" /\ StepTaken /\ raised' = "none") =>
              \/ event_keys' = {"all_tests_completed"}
              \/ /\ "current_test" \in event_keys'
                 /\ Rank(current_test'.index) > Rank(current_test.index) ]_vars

\* A sweep of the 2 x 2 x 2 grid, throughput second, completed after a bulk
\* skip and normal increments.
C30_Witness ==
    /\ Completed /\ raised = "none" /\ fed /\ IsSizes(<<2, 2, 2, 1, 1>>)
    /\ ThroughputPosition = 1
    /\ Len(emitted) \in 3..(Cells - 1)
    /\ \E i \in 1..(Len(emitted) - 1) : Rank(emitted[i + 1]) > Rank(emitted[i]) + 1
    /\ \E i \in 1..(Len(emitted) - 1) : Rank(emitted[i + 1]) = Rank(emitted[i]) + 1

====
